---- MODULE Spec2Model ----
(***************************************************************************)
(* A model of the template engine of meowdown (src/src/main.rs): the       *)
(* control-block parser, the template node tree and its renderer, the      *)
(* context chain, the layout cache and relative_url.                       *)
(*                                                                         *)
(* Text is modelled by TLA+ strings, byte for byte: offsets are 0-based    *)
(* as in Rust, a slice s[a..b] is Slice(s, a, b).  A Rust panic (unwrap on *)
(* None, a slice past the end of a string) is the value Panic: it is       *)
(* propagated outwards by every caller, as unwinding does.                 *)
(***************************************************************************)
EXTENDS Integers, Sequences, FiniteSets, TLC

VARIABLES
    functions,      \* GlobalContext.functions: the registered function names
    site_strings,   \* GlobalContext.site_strings
    layout_cache,   \* GlobalContext.layout_cache: name -> Layout node
    ctxs,           \* the TemplateContext objects alive, by identity 1..Len(ctxs)
    last,           \* the last call made and what it returned
    files,          \* templates/<name>.tpl.html on disk: name -> the file, if there is one
    stack,          \* the frames of build_page and get_layout that have not returned, innermost last
    reads,          \* how often each template file has been read
    status,         \* "running", or how the build died
    walk,           \* build_site: the pages of the directory walk not yet built
    written         \* build_site: the files written, [path, html], in order

vars == <<functions, site_strings, layout_cache, ctxs, last, files, stack, reads, status,
          walk, written>>

(***************************************************************************)
(* Strings                                                                 *)
(***************************************************************************)
NotFound == -1

\* &s[a..b]
Slice(s, a, b) == SubSeq(s, a + 1, b)

\* &s[a..]
SliceFrom(s, a) == SubSeq(s, a + 1, Len(s))

StartsWith(s, p) == Len(p) <= Len(s) /\ SubSeq(s, 1, Len(p)) = p

\* str::find: the byte offset of the first match, or NotFound
Find(s, pat) ==
    LET hits == {i \in 0..(Len(s) - Len(pat)) : SubSeq(s, i + 1, i + Len(pat)) = pat}
    IN  IF hits = {} THEN NotFound
        ELSE CHOOSE i \in hits : \A j \in hits : i <= j

Contains(s, pat) == Find(s, pat) # NotFound

\* str::replace: every non-overlapping match, left to right
RECURSIVE Replace(_, _, _)
Replace(s, from, to) ==
    LET i == Find(s, from)
    IN  IF from = "" \/ i = NotFound THEN s
        ELSE Slice(s, 0, i) \o to \o Replace(SliceFrom(s, i + Len(from)), from, to)

\* str::split_once
SplitOnce(s, pat) ==
    LET i == Find(s, pat)
    IN  IF i = NotFound THEN [found |-> FALSE, left |-> s, right |-> ""]
        ELSE [found |-> TRUE, left |-> Slice(s, 0, i), right |-> SliceFrom(s, i + Len(pat))]

IsWhite(ch) == ch \in {" ", "\n", "\t"}

RECURSIVE TrimStart(_)
TrimStart(s) == IF s # "" /\ IsWhite(Head(s)) THEN TrimStart(Tail(s)) ELSE s

RECURSIVE TrimEnd(_)
TrimEnd(s) ==
    IF s # "" /\ IsWhite(SubSeq(s, Len(s), Len(s)))
    THEN TrimEnd(SubSeq(s, 1, Len(s) - 1)) ELSE s

\* str::trim
Trim(s) == TrimEnd(TrimStart(s))

\* str::split_whitespace: the maximal runs of non-whitespace, in order
RECURSIVE SplitFrom(_, _, _)
SplitFrom(s, cur, acc) ==
    IF s = "" THEN (IF cur = "" THEN acc ELSE Append(acc, cur))
    ELSE IF IsWhite(Head(s))
         THEN SplitFrom(Tail(s), "", IF cur = "" THEN acc ELSE Append(acc, cur))
         ELSE SplitFrom(Tail(s), cur \o Head(s), acc)

SplitWhitespace(s) == SplitFrom(s, "", <<>>)

\* str::trim_end_matches(ch)
RECURSIVE TrimEndMatches(_, _)
TrimEndMatches(s, ch) ==
    IF s # "" /\ SubSeq(s, Len(s), Len(s)) = ch
    THEN TrimEndMatches(SubSeq(s, 1, Len(s) - 1), ch) ELSE s

\* str::trim_start_matches(ch)
RECURSIVE TrimStartMatches(_, _)
TrimStartMatches(s, ch) ==
    IF s # "" /\ Head(s) = ch THEN TrimStartMatches(Tail(s), ch) ELSE s

AsciiLower == "abcdefghijklmnopqrstuvwxyz"
AsciiUpper == "ABCDEFGHIJKLMNOPQRSTUVWXYZ"

\* char::is_ascii_alphabetic
IsAsciiAlphabetic(ch) == Contains(AsciiLower, ch) \/ Contains(AsciiUpper, ch)

RECURSIVE MapChars(_, _, _)
MapChars(s, from, to) ==
    IF s = "" THEN ""
    ELSE LET i == Find(from, Head(s))
         IN  (IF i = NotFound THEN Head(s) ELSE Slice(to, i, i + 1))
             \o MapChars(Tail(s), from, to)

\* str::to_uppercase, str::to_lowercase (on ASCII text)
ToUppercase(s) == MapChars(s, AsciiLower, AsciiUpper)
ToLowercase(s) == MapChars(s, AsciiUpper, AsciiLower)

(***************************************************************************)
(* Maps (HashMap<String, _>) are functions on a finite set of strings      *)
(***************************************************************************)
EmptyMap == [k \in {} |-> ""]

MapPut(m, k, v) == [x \in (DOMAIN m) \cup {k} |-> IF x = k THEN v ELSE m[x]]

\* HashMap::extend
MapExtend(m, n) == [x \in (DOMAIN m) \cup (DOMAIN n) |-> IF x \in DOMAIN n THEN n[x] ELSE m[x]]

(***************************************************************************)
(* Template nodes (enum TemplateNode)                                      *)
(***************************************************************************)
None == [type |-> "None"]

\* a panic of the thread that builds the site
Panic == [type |-> "Panic"]

IsPanic(x) == x.type = "Panic"

StringContent(s) == [type |-> "StringContent", s |-> s]

Composite(nodes) == [type |-> "Composite", nodes |-> nodes]

IfBlock(condition, true_branch, false_branch) ==
    [type |-> "IfBlock", condition |-> condition,
     true_branch |-> true_branch, false_branch |-> false_branch]

ForEachBlock(key, item_name, body) ==
    [type |-> "ForEachBlock", key |-> key, item_name |-> item_name, body |-> body]

Func(name, args, block_content) ==
    [type |-> "Func", name |-> name, args |-> args, block_content |-> block_content]

\* TemplateNode::new_layout
Layout(name, front_matter, content_node, parent) ==
    [type |-> "Layout", name |-> name, front_matter |-> front_matter,
     content_node |-> content_node, parent |-> parent]

\* TemplateNode::new_page
Page(path, front_matter, content_node, parent) ==
    [type |-> "Page", path |-> path, front_matter |-> front_matter,
     content_node |-> content_node, parent |-> parent]

(***************************************************************************)
(* The control-block parser                                                *)
(***************************************************************************)
\* the slice start is past the end of content when the end tag is missing
parse_block_content(content, end_tag) ==
    LET end_pattern == "{{ " \o end_tag \o " }}"
        found       == Find(content, end_pattern)
        end_pos     == IF found = NotFound THEN Len(content) ELSE found
    IN  IF end_pos + Len(end_pattern) > Len(content) THEN Panic
        ELSE [type  |-> "Block",
              inner |-> Slice(content, 0, end_pos),
              rest  |-> SliceFrom(content, end_pos + Len(end_pattern))]

parse_function_call(tag) ==
    LET parts == SplitWhitespace(tag)
    IN  IF parts = <<>> THEN None
        ELSE [type |-> "Call", name |-> Head(parts), args |-> Tail(parts)]

\* other_tag with the fallback of the renderer: an unknown tag becomes its name
other_tag_name_only(complete_tag, tag, fns) ==
    LET call == parse_function_call(tag)
    IN  IF call.type = "Call" /\ call.name \in fns
        THEN Func(call.name, call.args, None)
        ELSE StringContent(IF call.type = "Call" THEN call.name ELSE "")

\* other_tag without the look into the registry
other_tag_unchecked(complete_tag, tag, fns) ==
    LET call == parse_function_call(tag)
    IN  IF call.type = "Call"
        THEN Func(call.name, call.args, None)
        ELSE StringContent(complete_tag)

\* the `_` arm of the match on the tag's tokens: the node that is pushed
other_tag(complete_tag, tag, fns) ==
    LET call == parse_function_call(tag)
    IN  IF call.type = "Call" /\ call.name \in fns
        THEN Func(call.name, call.args, None)
        ELSE StringContent(complete_tag)

\* the `["else"]` arm of the match on the tag's tokens, with a text node for
\* the tag
else_tag_kept(nodes, complete_tag) == Append(nodes, StringContent(complete_tag))

\* the `["else"]` arm of the match on the tag's tokens: a warning, no node
else_tag(nodes, complete_tag) == nodes

\* a literal pushed whether or not it is empty
push_literal_always(nodes, text) == Append(nodes, StringContent(text))

\* `if !before.is_empty() { nodes.push(StringContent(before)) }`, and the same
\* for what remains after the last tag
push_literal(nodes, text) ==
    IF text # "" THEN Append(nodes, StringContent(text)) ELSE nodes

RECURSIVE ParseLoop(_, _, _)
\* one turn of the while loop of parse_control_blocks and all that follow it:
\* `remaining` is the text left, `nodes` what has been pushed, fns = self.functions
ParseLoop(remaining, nodes, fns) ==
    LET open_pos == Find(remaining, "{{")
    IN
    IF open_pos = NotFound
    THEN Composite(push_literal(nodes, remaining))
    ELSE
    LET before == Slice(remaining, 0, open_pos)
        nodes1 == push_literal(nodes, before)
        rel    == Find(SliceFrom(remaining, open_pos), "}}")
    IN
    IF rel = NotFound THEN Panic
    ELSE
    LET close_pos    == rel + open_pos
        complete_tag == Slice(remaining, open_pos, close_pos + 2)
        tag          == Trim(Slice(remaining, open_pos + 2, close_pos))
        rest         == SliceFrom(remaining, close_pos + 2)
        toks         == SplitWhitespace(tag)
    IN
    CASE Len(toks) = 2 /\ toks[1] = "if" ->
            LET blk == parse_block_content(rest, "endif")
            IN  IF IsPanic(blk) THEN Panic
                ELSE
                LET halves     == SplitOnce(blk.inner, "{{ else }}")
                    true_node  == ParseLoop(halves.left, <<>>, fns)
                    false_node == IF halves.found
                                  THEN ParseLoop(halves.right, <<>>, fns) ELSE None
                IN  IF IsPanic(true_node) \/ IsPanic(false_node) THEN Panic
                    ELSE ParseLoop(blk.rest,
                                   Append(nodes1, IfBlock(toks[2], true_node, false_node)),
                                   fns)
      [] toks = <<"else">> ->
            ParseLoop(rest, else_tag(nodes1, complete_tag), fns)
      [] Len(toks) = 4 /\ toks[1] = "foreach" /\ toks[3] = "as" ->
            LET blk == parse_block_content(rest, "endforeach")
            IN  IF IsPanic(blk) THEN Panic
                ELSE
                LET inner_node == ParseLoop(blk.inner, <<>>, fns)
                IN  IF IsPanic(inner_node) THEN Panic
                    ELSE ParseLoop(blk.rest,
                                   Append(nodes1, ForEachBlock(toks[2], toks[4], inner_node)),
                                   fns)
      [] OTHER ->
            ParseLoop(rest, Append(nodes1, other_tag(complete_tag, tag, fns)), fns)

parse_control_blocks(content, fns) == ParseLoop(content, <<>>, fns)

(***************************************************************************)
(* serde_yaml::Value, as far as the renderer looks at it                   *)
(***************************************************************************)
VString(s) == [kind |-> "String", s |-> s]

VNumber(n) == [kind |-> "Number", n |-> n]

\* a Mapping keeps its entries in insertion order: a sequence of [k, v]
VMapping(entries) == [kind |-> "Mapping", entries |-> entries]

VSequence(items) == [kind |-> "Sequence", items |-> items]

(***************************************************************************)
(* Contexts (struct TemplateContext).  A heap is the sequence of the       *)
(* contexts created so far; a TemplateContextPtr is an index into it and   *)
(* parent 0 is Option::None.                                               *)
(***************************************************************************)
\* TemplateContext::new: the heap with the new context at its end
TemplateContext_new(h, parent) ==
    Append(h, [strings |-> EmptyMap, nodes |-> EmptyMap,
               json_data |-> EmptyMap, parent |-> parent])

\* context.borrow_mut().strings.insert(k, v)
strings_insert(h, c, k, v) == [h EXCEPT ![c].strings = MapPut(@, k, v)]

\* add_front_matter on the context that encloses the one it is called on
add_front_matter_enclosing(h, c, front_matter) ==
    IF h[c].parent = 0 THEN [h EXCEPT ![c].strings = MapExtend(@, front_matter)]
    ELSE [h EXCEPT ![h[c].parent].strings = MapExtend(@, front_matter)]

add_front_matter(h, c, front_matter) ==
    [h EXCEPT ![c].strings = MapExtend(@, front_matter)]

RECURSIVE get_string_outermost(_, _, _)
\* get_string that asks the parent first
get_string_outermost(h, c, key) ==
    LET up == IF h[c].parent = 0 THEN [found |-> FALSE, value |-> ""]
              ELSE get_string_outermost(h, h[c].parent, key)
    IN  IF up.found THEN up
        ELSE IF key \in DOMAIN h[c].strings
             THEN [found |-> TRUE, value |-> h[c].strings[key]]
             ELSE up

RECURSIVE get_string(_, _, _)
\* [found, value]: Some(value) or None
\* get_string that takes an empty value for no value
RECURSIVE get_string_nonempty(_, _, _)
get_string_nonempty(h, c, key) ==
    IF key \in DOMAIN h[c].strings /\ h[c].strings[key] # ""
    THEN [found |-> TRUE, value |-> h[c].strings[key]]
    ELSE IF h[c].parent # 0 THEN get_string_nonempty(h, h[c].parent, key)
         ELSE [found |-> FALSE, value |-> ""]

get_string(h, c, key) ==
    IF key \in DOMAIN h[c].strings
    THEN [found |-> TRUE, value |-> h[c].strings[key]]
    ELSE IF h[c].parent = 0 THEN [found |-> FALSE, value |-> ""]
         ELSE get_string(h, h[c].parent, key)

(***************************************************************************)
(* Interpolation                                                           *)
(***************************************************************************)
perform_substitutions_str(s, k, v) ==
    LET s1 == Replace(s,  "{{ " \o k \o " }}", v)
        s2 == Replace(s1, "{ " \o k \o " }", v)
        s3 == Replace(s2, "{{" \o k \o "}}", v)
    IN  Replace(s3, "{" \o k \o "}", v)

RECURSIVE SetToSeq(_)
SetToSeq(S) ==
    IF S = {} THEN <<>>
    ELSE LET x == CHOOSE y \in S : TRUE IN <<x>> \o SetToSeq(S \ {x})

\* the keys of the ranking that are in dom, in the order of the ranking
RECURSIVE KeysIn(_, _)
KeysIn(ord, dom) ==
    IF ord = <<>> THEN <<>>
    ELSE (IF Head(ord) \in dom THEN <<Head(ord)>> ELSE <<>>) \o KeysIn(Tail(ord), dom)

\* The order in which a HashMap with the keys `dom` is iterated.  It is not
\* specified: it is given by `ord`, a ranking of keys that the caller draws.
IterationOrder(dom, ord) ==
    KeysIn(ord, dom) \o SetToSeq(dom \ {ord[i] : i \in 1..Len(ord)})

RECURSIVE FoldSubstitutions(_, _, _)
\* the loop over the entries: each step works on the text the step before
\* it has produced
FoldSubstitutions(s, keys, map) ==
    IF keys = <<>> THEN s
    ELSE CHOOSE r \in {FoldSubstitutions(output, Tail(keys), map) :
                         output \in {perform_substitutions_str(s, Head(keys),
                                                               map[Head(keys)])}} : TRUE

perform_substitutions_strings(s, strings, ord) ==
    FoldSubstitutions(s, IterationOrder(DOMAIN strings, ord), strings)

(***************************************************************************)
(* relative_url                                                            *)
(***************************************************************************)
RECURSIVE AllAlphabetic(_)
AllAlphabetic(s) == s = "" \/ (IsAsciiAlphabetic(Head(s)) /\ AllAlphabetic(Tail(s)))

\* has_protocol that takes any colon for the end of a protocol
has_protocol_any_colon(url) == Find(url, ":") # NotFound

has_protocol(url) ==
    LET colon_pos == Find(url, ":")
    IN  IF colon_pos = NotFound THEN FALSE
        ELSE IF colon_pos > 0 THEN AllAlphabetic(Slice(url, 0, colon_pos))
             ELSE FALSE

\* relative_url that joins without trimming the slashes
relative_url_untrimmed(site, path) ==
    IF has_protocol(path) \/ StartsWith(path, "#") THEN [type |-> "Str", s |-> path]
    ELSE IF "site.url" \notin DOMAIN site THEN Panic
         ELSE [type |-> "Str", s |-> site["site.url"] \o "/" \o path]

\* `site` is self.site_strings; the unwrap of a missing site.url panics
relative_url(site, path) ==
    IF has_protocol(path) \/ StartsWith(path, "#") THEN [type |-> "Str", s |-> path]
    ELSE IF "site.url" \notin DOMAIN site THEN Panic
         ELSE [type |-> "Str",
               s |-> TrimEndMatches(site["site.url"], "/") \o "/"
                         \o TrimStartMatches(path, "/")]

(***************************************************************************)
(* Front matter, pages and template files                                  *)
(***************************************************************************)
parse_front_matter(content) ==
    LET sp == SplitOnce(SliceFrom(content, 3), "---")
    IN  IF StartsWith(content, "---") /\ sp.found
        THEN [front_matter |-> Trim(sp.left), rest |-> Trim(sp.right)]
        ELSE [front_matter |-> "", rest |-> content]

Ok(v) == [type |-> "Ok", v |-> v]

Err == [type |-> "Err"]

\* a plain scalar, or the empty string written ""
YamlScalar(v) == IF v = "\"\"" THEN "" ELSE v

\* serde_yaml::from_str into a HashMap<String, String>, for a block mapping of
\* one `key: value` per line; a line that is no mapping entry is an error
RECURSIVE YamlLines(_, _)
YamlLines(text, acc) ==
    LET sp == SplitOnce(text, "\n")
        kv == SplitOnce(sp.left, ":")
        next == MapPut(acc, Trim(kv.left), YamlScalar(Trim(kv.right)))
    IN  IF ~kv.found THEN Err
        ELSE IF sp.found THEN YamlLines(sp.right, next)
        ELSE Ok(next)

parse_yaml_front_matter(front_matter) ==
    IF front_matter = "" THEN Ok(EmptyMap) ELSE YamlLines(front_matter, EmptyMap)

\* the offset of the last match, or NotFound
RFind(s, pat) ==
    LET hits == {i \in 0..(Len(s) - Len(pat)) : SubSeq(s, i + 1, i + Len(pat)) = pat}
    IN  IF hits = {} THEN NotFound
        ELSE CHOOSE i \in hits : \A j \in hits : i >= j

\* Path::file_stem: the last component without its last extension
file_stem(path) ==
    LET slash == RFind(path, "/")
        file == IF slash = NotFound THEN path ELSE SliceFrom(path, slash + 1)
        dot == RFind(file, ".")
    IN  IF dot = NotFound \/ dot = 0 THEN file ELSE Slice(file, 0, dot)

\* pulldown_cmark's push_html, for a document of one paragraph of plain text
markdown_to_html(markdown) == "<p>" \o markdown \o "</p>\n"

NoFile == [exists |-> FALSE, content |-> ""]

File(content) == [exists |-> TRUE, content |-> content]

\* a read that gives the empty text for a file that is not there
read_to_string_or_empty(fs, name) ==
    IF fs[name].exists THEN Ok(fs[name].content) ELSE Ok("")

\* fs::read_to_string of templates/<name>.tpl.html
read_to_string(fs, name) ==
    IF fs[name].exists THEN Ok(fs[name].content) ELSE Err

\* the default parent put into every front matter without a `layout`
with_default_layout_always(front_matter, name) ==
    IF "layout" \notin DOMAIN front_matter
    THEN MapPut(front_matter, "layout", "default") ELSE front_matter

\* get_layout: the default parent of a layout that names none and is
\* neither `default` nor `site`
with_default_layout(front_matter, name) ==
    IF "layout" \notin DOMAIN front_matter /\ name # "default" /\ name # "site"
    THEN MapPut(front_matter, "layout", "default") ELSE front_matter

\* the layout `default` given to a page with no layout or an empty one
with_page_layout_or_empty(front_matter) ==
    IF "layout" \in DOMAIN front_matter /\ front_matter["layout"] # "" THEN front_matter
    ELSE MapPut(front_matter, "layout", "default")

\* build_page: the layout `default` of a page that names none
with_page_layout(front_matter) ==
    IF "layout" \in DOMAIN front_matter THEN front_matter
    ELSE MapPut(front_matter, "layout", "default")

\* the pages of the content directory; the walk of build_site skips the
\* directory _posts, whose pages are built by list_md only
Pages ==
    [p \in {"content/a.md", "content/b.md", "content/c.md", "content/bad.md",
            "content/top.md", "content/index.md",
            "content/_posts/ok.md", "content/_posts/bad.md"} |->
        CASE p = "content/a.md" -> "Hello"
          [] p = "content/b.md" -> "---\nlayout: \"\"\n---\nHello {{title}}"
          [] p = "content/c.md" -> "---\nlayout: post\ntitle: T\n---\nHello"
          [] p = "content/bad.md" -> "---\nlayout\n---\nHello"
          [] p = "content/top.md" ->
                "---\nlayout: \"\"\nflag: y\n---\nTop{{ if flag }}!{{ endif }}"
          [] p = "content/index.md" -> "{{ list_md content/_posts }}"
          [] p = "content/_posts/ok.md" ->
                "---\nflag: y\n---\nPost{{ if flag }}!{{ endif }}"
          [] p = "content/_posts/bad.md" -> "---\nlayout\n---\nHello"]

\* fs::read_dir: the entries of a directory, or Err when there is none
read_dir(path) ==
    IF path = "content/_posts"
    THEN Ok(<<"content/_posts/ok.md", "content/_posts/bad.md">>)
    ELSE Err

\* format!("{:?}", e) of the error of parse_yaml_front_matter
ErrorDebug == "Error(\"invalid type: string, expected a map\")"

(***************************************************************************)
(* The built-in functions (GlobalContext::with_default_funcs)              *)
(***************************************************************************)
DefaultFuncs ==
    {"uppercase", "lowercase", "date", "datetime", "datetime-pretty",
     "modified-datetime-pretty", "date_html", "tags_html", "categories_html",
     "relative-url", "image_html", "list_md", "json_list"}

\* what Local::now() formats to: the clock is outside the model
ClockDate == "2025-01-02"
ClockDateTime == "2025-01-02 03:04:05"
ClockPretty == "Thu Jan  2 03:04:05 2025"

\* a function's or a render's result: the text and the heap it leaves
Out(s, h) == [type |-> "Out", out |-> s, heap |-> h]

\* date_html, tags_html, categories_html
LabelledHtml(h, c, key, label) ==
    LET v == get_string(h, c, key)
    IN  IF v.found THEN "<p><b>" \o label \o ":</b> " \o v.value \o "</p>" ELSE ""

\* Mapping::get with a string key
MappingGet(entries, key) ==
    LET hits == {i \in 1..Len(entries) : entries[i].k = VString(key)}
    IN  IF hits = {} THEN None ELSE entries[CHOOSE i \in hits : \A j \in hits : i <= j].v

RECURSIVE JsonListItems(_)
\* the fold of json_list over the items that are mappings
JsonListItems(items) ==
    IF items = <<>> THEN ""
    ELSE LET obj == Head(items)
         IN  (IF obj.kind # "Mapping" THEN ""
              ELSE LET title == MappingGet(obj.entries, "title")
                       desc  == MappingGet(obj.entries, "description")
                   IN  "<li>"
                       \o (IF title # None /\ title.kind = "String"
                           THEN "<h3>" \o title.s \o "</h3>" ELSE "")
                       \o (IF desc # None /\ desc.kind = "String"
                           THEN "<p>" \o desc.s \o "</p>" ELSE "")
                       \o "</li>\n")
             \o JsonListItems(Tail(items))

json_list(args, block, c, h) ==
    LET key == IF args = <<>> THEN "items" ELSE Head(args)
        jd  == h[c].json_data
    IN  IF key \in DOMAIN jd /\ jd[key].kind = "Sequence"
        THEN IF block = None THEN "<ul>\n" \o JsonListItems(jd[key].items) \o "</ul>"
             ELSE block.s
        ELSE ""

\* frames of get_layout before the thread's stack is exhausted
MaxDepth == 4

\* Result::unwrap_or_default of parsed front matter
unwrap_or_default(y) == IF y.type = "Ok" THEN y.v ELSE EmptyMap

\* TemplateNode::new_layout, unless resolving the parent or parsing the body
\* has panicked
new_layout(name, front_matter, content_node, parent) ==
    IF IsPanic(parent) \/ IsPanic(content_node) THEN Panic
    ELSE Layout(name, front_matter, content_node, parent)

RECURSIVE get_layout(_, _, _)
\* get_layout from the front matter on: the parent is resolved, the body parsed
LayoutWith(name, front_matter, html, fs, depth) ==
    new_layout(name, front_matter, parse_control_blocks(html, functions),
               IF "layout" \in DOMAIN front_matter /\ front_matter["layout"] # ""
               THEN get_layout(front_matter["layout"], fs, depth - 1)
               ELSE None)

\* get_layout from the content of the file on
LayoutFrom(name, pf, fs, depth) ==
    LayoutWith(name,
               with_default_layout(unwrap_or_default(parse_yaml_front_matter(pf.front_matter)),
                                   name),
               pf.rest, fs, depth)

\* self.get_layout(name) when it is called from within a render: the cached
\* Layout, or the one resolved from the template files; Panic when a file
\* is missing, a body does not parse or the recursion exhausts the stack
get_layout(name, fs, depth) ==
    IF name \in DOMAIN layout_cache THEN layout_cache[name]
    ELSE IF depth = 0 \/ name \notin DOMAIN fs THEN Panic
    ELSE IF read_to_string(fs, name).type = "Err" THEN Panic
    ELSE LayoutFrom(name, parse_front_matter(read_to_string(fs, name).v), fs, depth)

\* build_page: the title of a page that has none is the stem of its file
with_page_title(front_matter, path) ==
    IF "title" \in DOMAIN front_matter THEN front_matter
    ELSE MapPut(front_matter, "title", file_stem(path))

\* TemplateNode::new_page, unless parsing the body or resolving the layout
\* has panicked
new_page(path, front_matter, content_node, parent) ==
    IF IsPanic(content_node) \/ IsPanic(parent) THEN Panic
    ELSE Ok(Page(path, front_matter, content_node, parent))

\* build_page from the defaults of the front matter on
PageWith(path, front_matter, markdown, fs, depth) ==
    new_page(path, front_matter,
             parse_control_blocks(markdown_to_html(markdown), functions),
             IF front_matter["layout"] = "" THEN None
             ELSE get_layout(front_matter["layout"], fs, depth))

\* build_page from the parsed front matter on: malformed front matter is Err
PageFrom(path, y, markdown, fs, depth) ==
    IF y.type = "Err" THEN Err
    ELSE PageWith(path, with_page_title(with_page_layout(y.v), path), markdown, fs, depth)

\* build_page from the content of the file on
PageOf(path, pf, fs, depth) ==
    PageFrom(path, parse_yaml_front_matter(pf.front_matter), pf.rest, fs, depth)

\* self.build_page(path) when it is called from within a render: Ok(Page),
\* Err for a page that cannot be read or has malformed front matter, Panic
build_page(path, fs, depth) ==
    IF path \notin DOMAIN Pages THEN Err
    ELSE PageOf(path, parse_front_matter(Pages[path]), fs, depth)

RECURSIVE render(_, _, _, _)
RECURSIVE RenderAll(_, _, _, _, _)
RECURSIVE ListedItems(_, _)

\* items.push of list_md: the page, or the error of build_page as a text node
PushItem(items, f) ==
    IF IsPanic(f) THEN Panic
    ELSE Ok(Append(items, IF f.type = "Ok" THEN f.v
                          ELSE StringContent("error: " \o ErrorDebug)))

\* the loop of list_md over the entries of the directory
ListedItems(entries, items) ==
    IF entries = <<>> \/ IsPanic(items) THEN items
    ELSE ListedItems(Tail(entries),
                     PushItem(items.v, build_page(Head(entries), files, MaxDepth)))

\* the last statement of list_md: the items rendered in the caller's
\* context, their output joined
RenderListed(items, c, h, ord) ==
    IF IsPanic(items) THEN Panic ELSE RenderAll(items.v, c, h, ord, "")

\* list_md: the pages of a directory, built and rendered
list_md(args, c, h, ord) ==
    IF args = <<>> THEN Panic
    ELSE IF read_dir(Head(args)).type = "Err" THEN Out("", h)
    ELSE RenderListed(ListedItems(read_dir(Head(args)).v, Ok(<<>>)), c, h, ord)

\* uppercase that folds all its arguments
RECURSIVE uppercase_all_args(_)
uppercase_all_args(args) ==
    IF args = <<>> THEN "" ELSE ToUppercase(Head(args)) \o uppercase_all_args(Tail(args))

\* args.first().map_or(String::new(), |s| s.to_uppercase())
uppercase(args) == IF args = <<>> THEN "" ELSE ToUppercase(Head(args))

\* args.first().map_or(String::new(), |s| s.to_lowercase())
lowercase(args) == IF args = <<>> THEN "" ELSE ToLowercase(Head(args))

\* func(args, block_content, context, global_context) for a registered name
Invoke(name, args, block, c, h, ord) ==
    CASE name = "uppercase" -> Out(uppercase(args), h)
      [] name = "lowercase" -> Out(lowercase(args), h)
      [] name = "date" -> Out(ClockDate, h)
      [] name = "datetime" -> Out(ClockDateTime, h)
      [] name = "datetime-pretty" -> Out(ClockPretty, h)
      [] name = "modified-datetime-pretty" -> Out(ClockPretty, h)
      [] name = "date_html" -> Out(LabelledHtml(h, c, "date", "Date"), h)
      [] name = "tags_html" -> Out(LabelledHtml(h, c, "tags", "Tags"), h)
      [] name = "categories_html" -> Out(LabelledHtml(h, c, "categories", "Categories"), h)
      [] name = "relative-url" ->
            IF args = <<>> THEN Panic
            ELSE LET u == relative_url(site_strings, Head(args))
                 IN  IF IsPanic(u) THEN Panic ELSE Out(u.s, h)
      [] name = "image_html" ->
            LET v == get_string(h, c, "image")
            IN  IF ~v.found THEN Out("", h)
                ELSE LET u == relative_url(site_strings, v.value)
                     IN  IF IsPanic(u) THEN Panic
                         ELSE Out("<img src=\"" \o u.s \o "\" />", h)
      [] name = "list_md" -> list_md(args, c, h, ord)
      [] name = "json_list" -> Out(json_list(args, block, c, h), h)

(***************************************************************************)
(* The renderer (TemplateNode::render)                                     *)
(***************************************************************************)
RECURSIVE SeedRecord_enclosing(_, _, _)
\* a seeding that writes the fields into the parent of the context it is given
SeedRecord_enclosing(h, c, entries) ==
    IF entries = <<>> THEN h
    ELSE LET e == Head(entries)
         IN  SeedRecord_enclosing(IF e.k.kind = "String" /\ e.v.kind = "String"
                                  THEN strings_insert(h, h[c].parent, e.k.s, e.v.s) ELSE h,
                                  c, Tail(entries))

RECURSIVE SeedRecord(_, _, _)
\* the loop over a record's fields: string keys with string values only
SeedRecord(h, c, entries) ==
    IF entries = <<>> THEN h
    ELSE LET e == Head(entries)
         IN  SeedRecord(IF e.k.kind = "String" /\ e.v.kind = "String"
                        THEN strings_insert(h, c, e.k.s, e.v.s) ELSE h,
                        c, Tail(entries))

RECURSIVE RenderItems(_, _, _, _, _, _)
RECURSIVE RenderNodes(_, _, _, _, _)
RECURSIVE apply_substitutions(_, _, _, _)

\* the Func arm of render with nothing for a name that is not registered
render_func_or_nothing(node, c, h, ord) ==
    IF node.name \in functions
    THEN Invoke(node.name, node.args, node.block_content, c, h, ord)
    ELSE Out("", h)

\* the Func arm of render: the function of that name called, or the name
render_func(node, c, h, ord) ==
    IF node.name \in functions
    THEN Invoke(node.name, node.args, node.block_content, c, h, ord)
    ELSE Out(node.name, h)

\* In the renderer a result that is used more than once is bound as the
\* element of a set of one element, CHOOSE v \in {e(r) : r \in {result}} : TRUE;
\* this is e(result), with the result computed once, before it is used.

\* Composite: the children in order, their output joined
RenderAll(nodes, c, h, ord, acc) ==
    IF nodes = <<>> THEN Out(acc, h)
    ELSE CHOOSE v \in {IF IsPanic(r) THEN Panic
                       ELSE RenderAll(Tail(nodes), c, r.heap, ord, acc \o r.out) :
                          r \in {render(Head(nodes), c, h, ord)}} : TRUE

\* ForEachBlock: one new context and one rendering of the body per item
RenderItems(items, body, c, h, ord, acc) ==
    IF items = <<>> THEN Out(acc, h)
    ELSE LET h1      == TemplateContext_new(h, c)
             new_ctx == Len(h1)
             h2      == IF Head(items).kind = "Mapping"
                        THEN SeedRecord(h1, new_ctx, Head(items).entries) ELSE h1
         IN  CHOOSE v \in {IF IsPanic(r) THEN Panic
                           ELSE RenderItems(Tail(items), body, c, r.heap, ord,
                                            acc \o r.out) :
                              r \in {render(body, new_ctx, h2, ord)}} : TRUE

\* ctx.nodes rendered on demand: [map, heap]
RenderNodes(keys, c, h, ord, acc) ==
    IF keys = <<>> THEN [type |-> "Map", map |-> acc, heap |-> h]
    ELSE CHOOSE v \in {IF IsPanic(r) THEN Panic
                       ELSE RenderNodes(Tail(keys), c, r.heap, ord,
                                        MapPut(acc, Head(keys), r.out)) :
                          r \in {render(h[c].nodes[Head(keys)], c, h, ord)}} : TRUE

\* apply_substitutions after the nodes of the context have been rendered
SubstituteRendered(output, rendered, c, ord) ==
    IF IsPanic(rendered) THEN Panic
    ELSE CHOOSE v \in
             {IF rendered.heap[c].parent # 0
              THEN apply_substitutions(output2, rendered.heap[c].parent, rendered.heap, ord)
              ELSE Out(perform_substitutions_strings(output2, site_strings, ord),
                       rendered.heap) :
                 output2 \in {perform_substitutions_strings(output, rendered.map,
                                                            ord)}} : TRUE

apply_substitutions(s, c, h, ord) ==
    CHOOSE v \in
        {SubstituteRendered(output, rendered, c, ord) :
            output \in {perform_substitutions_strings(s, h[c].strings, ord)},
            rendered \in {RenderNodes(IterationOrder(DOMAIN h[c].nodes, ord), c, h, ord,
                                      EmptyMap)}} : TRUE

apply_all_substitutions(s, c, h, front_matter, ord) ==
    LET h1 == add_front_matter(h, c, front_matter)
    IN  CHOOSE r \in {apply_substitutions(output, c, h1, ord) :
                         output \in {perform_substitutions_strings(s, front_matter,
                                                                   ord)}} : TRUE

\* a hand-off that never renders the parent
RenderParent_own_output(parent, o, c, ord) == o

\* the hand-off of a Page or a Layout to its parent layout
RenderParent(parent, o, c, ord) ==
    IF IsPanic(o) THEN Panic
    ELSE IF parent = None THEN o
         ELSE LET h1             == TemplateContext_new(o.heap, c)
                  layout_context == Len(h1)
              IN  render(parent, layout_context,
                         strings_insert(h1, layout_context, "content", o.out), ord)

render(node, c, h, ord) ==
    CASE node.type = "Page" ->
            LET h1           == TemplateContext_new(h, c)
                page_context == Len(h1)
            IN  CHOOSE v \in
                    {IF IsPanic(r) THEN Panic
                     ELSE RenderParent(node.parent,
                                       apply_all_substitutions(r.out, page_context, r.heap,
                                                               node.front_matter, ord),
                                       page_context, ord) :
                        r \in {render(node.content_node, page_context, h1, ord)}} : TRUE
      [] node.type = "Layout" ->
            CHOOSE v \in
                {IF IsPanic(r) THEN Panic
                 ELSE RenderParent(node.parent,
                                   apply_all_substitutions(r.out, c, r.heap,
                                                           node.front_matter, ord),
                                   c, ord) :
                    r \in {render(node.content_node, c, h, ord)}} : TRUE
      [] node.type = "IfBlock" ->
            IF get_string(h, c, node.condition).found
            THEN render(node.true_branch, c, h, ord)
            ELSE IF node.false_branch # None
                 THEN render(node.false_branch, c, h, ord)
                 ELSE Out("", h)
      [] node.type = "ForEachBlock" ->
            LET jd == h[c].json_data
            IN  IF node.key \in DOMAIN jd /\ jd[node.key].kind = "Sequence"
                THEN RenderItems(jd[node.key].items, node.body, c, h, ord, "")
                ELSE Out("", h)
      [] node.type = "Func" -> render_func(node, c, h, ord)
      [] node.type = "StringContent" -> Out(node.s, h)
      [] node.type = "Composite" -> RenderAll(node.nodes, c, h, ord, "")

(***************************************************************************)
(* The inputs of the model                                                 *)
(***************************************************************************)
\* contexts alive at once outside a render (the renderer creates more)
MaxCtx == 2
\* entries (strings and json_data) in all contexts together
MaxEntries == 2
\* records in the sequence a foreach iterates over
MaxItems == 3
\* contexts of the chains on which lookup and interpolation are exercised
MaxChain == 3
\* slashes at the end of a base URL and at the start of a path
MaxSlashes == 2

\* what load_site_data finds in data/site.yaml, with the build revision
SiteData(url) == [k \in {"build_revision", "site.url"} |->
                     IF k = "site.url" THEN url ELSE "r1"]

\* the two rankings by which HashMaps are iterated in this model: every pair
\* of keys is met in both orders
KeyOrder == <<"X", "A", "B", "name", "title", "layout", "content", "build_revision", "site.url">>
Reverse(q) == [i \in 1..Len(q) |-> q[Len(q) + 1 - i]]
Orders == {KeyOrder, Reverse(KeyOrder)}

\* string entries put into contexts
Bindings == {<<"X", "v">>, <<"X", "">>, <<"A", "a">>, <<"B", "b">>}

PersonNames == <<"ann", "bob", "cy", "dee", "eve">>

\* record i of a sequence: a mapping with a string field `name`; the second
\* record also has a field that is not a string
Person(i) ==
    VMapping(<<[k |-> VString("name"), v |-> VString(PersonNames[i])]>>
             \o (IF i = 2 THEN <<[k |-> VString("age"), v |-> VNumber(7)]>> ELSE <<>>))

People(n) == VSequence([i \in 1..n |-> Person(i)])

\* a sequence of mixed records: a mapping of two string fields, a value that
\* is no mapping, and a mapping with a number, a sequence and a number key
\* among its fields
Rows ==
    VSequence(<<VMapping(<<[k |-> VString("name"), v |-> VString("ann")],
                           [k |-> VString("nick"), v |-> VString("a")]>>),
                VString("loose"),
                VMapping(<<[k |-> VString("age"), v |-> VNumber(7)],
                           [k |-> VString("name"), v |-> VString("bob")],
                           [k |-> VString("tags"), v |-> VSequence(<<VString("t")>>)],
                           [k |-> VNumber(1), v |-> VString("one")]>>)>>)

\* a foreach whose body, and the text after it, look the fields up
RowsLoop ==
    "{{ foreach rows as r }}{{ if nick }}N{{ endif }}{{ if age }}G{{ endif }}"
    \o "{{ if tags }}T{{ endif }}{{ if name }}Y{{ endif }};{{ endforeach }}"
    \o "{{ if nick }}N{{ endif }}{{ if name }}Y{{ endif }}."

\* json_data entries put into contexts: the empty and the full sequence, and
\* a value that is no sequence
JsonBindings ==
    {<<"items", People(0)>>, <<"items", People(MaxItems)>>, <<"items", VString("none")>>,
     <<"rows", Rows>>}

\* templates with an `else` tag outside every `if`: the text before the tag,
\* the tag, the text after it
StrayElse ==
    {<<"a", "{{ else }}", "b">>,
     <<"a", "{{else}}", "b">>,
     <<"", "{{ else }}", "">>,
     <<"{{ if X }}A{{ endif }}", "{{  else  }}", "c">>,
     <<"{{ foreach items as x }}n", "{{ else }}", "m{{ endforeach }}">>,
     <<"{{ uppercase ab }}", "{{ else }}", "{{ uppercase cd }}">>}

\* the control blocks and tags parsed and rendered
Cores ==
    {"{{if X}}A{{else}}B{{endif}}",
     "{{ if X }}A{{ else }}B{{ endif }}",
     "{{if X}}A{{else}}B{{ endif }}",
     "{{if X}}A{{endif}}",
     "{{ if X }}A{{ endif }}",
     "{{if A}}{{if B}}X{{endif}}Y{{endif}}",
     "{{ if A }}{{ if B }}X{{ endif }}Y{{ endif }}",
     "{{foreach items as x}}{{name}}{{endforeach}}",
     "{{ foreach items as x }}{{name}}{{ endforeach }}",
     "{{nope foo}}",
     "{{ nope foo }}+{{nope foo}}",
     "{{uppercase abc}}",
     "{{  lowercase  ABC  de }}",
     "{{ uppercase }}",
     "{{ date }}",
     "{{ if }}",
     "{{ if a b }}",
     "{{ foreach items in x }}",
     "{{}}",
     RowsLoop,
     "<l>{{content}}{{ if X }}x{{ endif }}</l>",
     "open {{ tag",
     "{{ if X }}A",
     "{{ foreach items as x }}n",
     "plain"}
    \cup {e[1] \o e[2] \o e[3] : e \in StrayElse}
    \cup {e[1] \o e[3] : e \in StrayElse}

\* the blocks that are also parsed with text around them
Embedded ==
    {"{{ if X }}A{{ else }}B{{ endif }}",
     "{{if X}}A{{endif}}",
     "{{ if A }}{{ if B }}X{{ endif }}Y{{ endif }}",
     "{{nope foo}}",
     "{{uppercase abc}}"}

Templates == Cores \cup {"<p>" \o t \o "</p>" : t \in Embedded}

\* the registries a GlobalContext has: empty after new, full after
\* with_default_funcs
Registries == {{}, DefaultFuncs}

\* parse_control_blocks on the templates of the model, computed once
ParseTable == [fns \in Registries |-> [t \in Templates |-> parse_control_blocks(t, fns)]]

(***************************************************************************)
(* The state after GlobalContext::new, with no template files              *)
(***************************************************************************)
\* no call has returned a result that its caller has not taken
NoLast == [op |-> "none"]

Init ==
    /\ functions = {}
    /\ site_strings = EmptyMap
    /\ layout_cache = EmptyMap
    /\ ctxs = <<>>
    /\ last = NoLast
    /\ files = EmptyMap
    /\ stack = <<>>
    /\ reads = EmptyMap
    /\ status = "running"
    /\ walk = <<>>
    /\ written = <<>>

\* the caller takes the result of the last call
Return ==
    /\ status = "running"
    /\ last # NoLast
    /\ last' = NoLast
    /\ UNCHANGED <<walk, written, functions, site_strings, layout_cache, ctxs, files, stack, reads, status>>

\* GlobalContext::new_with_defaults: the build makes its global context
\* before it makes any template context
NewWithDefaults(site) ==
    /\ status = "running"
    /\ last = NoLast
    /\ functions = {}
    /\ ctxs = <<>>
    /\ functions' = DefaultFuncs
    /\ site_strings' = site
    /\ UNCHANGED <<walk, written, layout_cache, ctxs, last, files, stack, reads, status>>

\* TemplateContext::new(parent), parent 0 for None
NewContext(parent) ==
    /\ status = "running"
    /\ last = NoLast
    /\ functions # {}
    /\ parent \in 0..Len(ctxs)
    /\ ctxs' = TemplateContext_new(ctxs, parent)
    /\ UNCHANGED <<walk, written, functions, site_strings, layout_cache, last, files, stack, reads, status>>

\* the number of entries of all contexts
RECURSIVE EntryCount(_)
EntryCount(h) ==
    IF h = <<>> THEN 0
    ELSE Cardinality(DOMAIN Head(h).strings) + Cardinality(DOMAIN Head(h).json_data)
         + EntryCount(Tail(h))

\* ctx.borrow_mut().strings.insert(k, v)
InsertString(c, k, v) ==
    /\ status = "running"
    /\ last = NoLast
    /\ c \in 1..Len(ctxs)
    /\ ctxs' = strings_insert(ctxs, c, k, v)
    /\ UNCHANGED <<walk, written, functions, site_strings, layout_cache, last, files, stack, reads, status>>

\* ctx.borrow_mut().json_data.insert(k, v): the field is there for iteration
\* sources, though no code of the repository fills it
InsertJson(c, k, v) ==
    /\ status = "running"
    /\ last = NoLast
    /\ c \in 1..Len(ctxs)
    /\ ctxs' = [ctxs EXCEPT ![c].json_data = MapPut(@, k, v)]
    /\ UNCHANGED <<walk, written, functions, site_strings, layout_cache, last, files, stack, reads, status>>

\* self.parse_control_blocks(text); a panic ends the build
ParseControlBlocks(text) ==
    LET node == ParseTable[functions][text]
    IN  /\ status = "running"
        /\ last = NoLast
        /\ last' = [op |-> "parse", text |-> text, fns |-> functions, node |-> node]
        /\ status' = IF IsPanic(node) THEN "panic" ELSE status
        /\ UNCHANGED <<walk, written, functions, site_strings, layout_cache, ctxs, files, stack, reads>>

\* the result of a render as the caller sees it
Rendered(text, c, r, h) ==
    IF IsPanic(r)
    THEN [op |-> "render", text |-> text, ctx |-> c, panicked |-> TRUE,
          out |-> "", before |-> h, heap |-> h]
    ELSE [op |-> "render", text |-> text, ctx |-> c, panicked |-> FALSE,
          out |-> r.out, before |-> h, heap |-> r.heap]

\* self.parse_control_blocks(text).render(c, self): the contexts made by the
\* render are dropped when it returns, those that were there stay.  The
\* nodes a parse gives are rendered without any iteration over a HashMap.
RenderTemplate(text, c) ==
    /\ status = "running"
    /\ last = NoLast
    /\ c \in 1..Len(ctxs)
    /\ \E r \in {IF IsPanic(ParseTable[functions][text]) THEN Panic
                  ELSE render(ParseTable[functions][text], c, ctxs, KeyOrder)} :
        /\ last' = Rendered(text, c, r, ctxs)
        /\ status' = IF IsPanic(r) THEN "panic" ELSE status
        /\ ctxs' = IF IsPanic(r) THEN ctxs ELSE SubSeq(r.heap, 1, Len(ctxs))
        /\ UNCHANGED <<walk, written, functions, site_strings, layout_cache, files, stack, reads>>

\* the bodies of the pages rendered in a context of the model: a loop, a loop
\* with conditions, a condition, function calls
PageBodies ==
    {"{{ foreach items as x }}nm{{ endforeach }}", RowsLoop,
     "{{ if X }}A{{ else }}B{{ endif }}", "{{ uppercase ab }}{{ uppercase cd }}"}

\* TemplateNode::new_layout on a parsed body, as get_layout calls it
LayoutNode(name, key, parent) ==
    Layout(name, MapPut(EmptyMap, key, name),
           ParseTable[functions]["<l>{{content}}{{ if X }}x{{ endif }}</l>"], parent)

\* no layout, one layout, a layout in a layout
PageParents ==
    {None, LayoutNode("inner", "X", None),
     LayoutNode("inner", "X", LayoutNode("outer", "title", None))}

\* TemplateNode::new_page(..).render(c, self) for a page with the front matter
\* title and Y, in a context that may have ancestors and bindings
RenderPageIn(body, parent, c) ==
    /\ status = "running"
    /\ last = NoLast
    /\ c \in 1..Len(ctxs)
    /\ \E r \in {render(Page("content/p.md",
                              MapPut(MapPut(EmptyMap, "title", "T"), "Y", "y"),
                              ParseTable[functions][body], parent),
                         c, ctxs, KeyOrder)} :
        /\ last' = [op |-> "page_render", text |-> body, parent |-> parent, ctx |-> c,
                    panicked |-> IsPanic(r), before |-> ctxs,
                    out |-> IF IsPanic(r) THEN "" ELSE r.out,
                    heap |-> IF IsPanic(r) THEN ctxs ELSE r.heap]
        /\ status' = IF IsPanic(r) THEN "panic" ELSE status
        /\ ctxs' = IF IsPanic(r) THEN ctxs ELSE SubSeq(r.heap, 1, Len(ctxs))
        /\ UNCHANGED <<walk, written, functions, site_strings, layout_cache, files, stack, reads>>

Next ==
    \/ NewWithDefaults(SiteData("https://x.test"))
    \/ \E p \in 0..MaxCtx : Len(ctxs) < MaxCtx /\ NewContext(p)
    \/ \E c \in 1..MaxCtx, b \in Bindings :
            EntryCount(ctxs) < MaxEntries /\ InsertString(c, b[1], b[2])
    \/ \E c \in 1..MaxCtx, b \in JsonBindings :
            EntryCount(ctxs) < MaxEntries /\ InsertJson(c, b[1], b[2])
    \/ \E t \in Templates : ParseControlBlocks(t)
    \/ \E t \in Templates, c \in 1..MaxCtx : RenderTemplate(t, c)
    \/ \E b \in PageBodies, p \in PageParents, c \in 1..MaxCtx : RenderPageIn(b, p, c)
    \/ Return

Spec == Init /\ [][Next]_vars

(***************************************************************************)
(* Lookup and interpolation on chains of contexts                          *)
(***************************************************************************)
TitleBindings == {<<"title", "Child">>, <<"title", "Parent">>}

\* the four ways to write the placeholder of `title`
Spellings == {"{{title}}", "{title}", "{{ title }}", "{ title }"}

\* site data with and without a site-wide title
SitesWithTitle ==
    {SiteData("https://x.test"), MapPut(SiteData("https://x.test"), "title", "Site")}

\* context.borrow().get_string(key)
GetString(c, key) ==
    /\ status = "running"
    /\ last = NoLast
    /\ c \in 1..Len(ctxs)
    /\ last' = [op |-> "get_string", ctx |-> c, key |-> key,
                result |-> get_string(ctxs, c, key)]
    /\ UNCHANGED <<walk, written, functions, site_strings, layout_cache, ctxs, files, stack, reads, status>>

\* TemplateNode::apply_substitutions(s, c, self)
ApplySubstitutions(s, c, ord) ==
    /\ status = "running"
    /\ last = NoLast
    /\ c \in 1..Len(ctxs)
    /\ \E r \in {apply_substitutions(s, c, ctxs, ord)} :
        /\ last' = IF IsPanic(r)
                   THEN [op |-> "apply_substitutions", s |-> s, ctx |-> c,
                         panicked |-> TRUE, out |-> ""]
                   ELSE [op |-> "apply_substitutions", s |-> s, ctx |-> c,
                         panicked |-> FALSE, out |-> r.out]
        /\ status' = IF IsPanic(r) THEN "panic" ELSE status
        /\ UNCHANGED <<walk, written, functions, site_strings, layout_cache, ctxs, files, stack, reads>>

NextCtx ==
    \/ \E site \in SitesWithTitle : NewWithDefaults(site)
    \/ \E p \in 0..MaxChain : Len(ctxs) < MaxChain /\ NewContext(p)
    \/ \E c \in 1..MaxChain, b \in TitleBindings : InsertString(c, b[1], b[2])
    \/ \E c \in 1..MaxChain, k \in {"title", "X"} : GetString(c, k)
    \/ \E c \in 1..MaxChain, s \in Spellings \cup {"<h1>{{title}}</h1>{ title }"},
          ord \in Orders : ApplySubstitutions(s, c, ord)
    \/ Return

SpecCtx == Init /\ [][NextCtx]_vars

(***************************************************************************)
(* Calls of the registered functions                                       *)
(***************************************************************************)
\* the argument lists and the block contents a function is called with
ArgLists == {<<>>, <<"abc">>, <<"aBc1">>, <<"XY", "de">>, <<"items", "abc", "Q">>}
Blocks == {None, StringContent("blk")}

\* func(args, block_content, context, global_context) for the function
\* registered under `name`
CallFunction(name, args, block, c) ==
    /\ status = "running"
    /\ last = NoLast
    /\ name \in functions
    /\ c \in 1..Len(ctxs)
    /\ \E r \in {Invoke(name, args, block, c, ctxs, KeyOrder)} :
        /\ last' = [op |-> "call", name |-> name, args |-> args, block |-> block,
                    ctx |-> c, panicked |-> IsPanic(r),
                    out |-> IF IsPanic(r) THEN "" ELSE r.out,
                    heap |-> IF IsPanic(r) THEN ctxs ELSE r.heap]
        /\ status' = IF IsPanic(r) THEN "panic" ELSE status
        /\ UNCHANGED <<walk, written, functions, site_strings, layout_cache, ctxs, files, stack, reads>>

\* the names of the Func nodes that are rendered: two that with_default_funcs
\* registers and one that nothing registers
FuncNames == {"uppercase", "lowercase", "nope"}

\* TemplateNode::Func { name, args, block_content }.render(context, global)
RenderFunc(name, args, block, c) ==
    /\ status = "running"
    /\ last = NoLast
    /\ c \in 1..Len(ctxs)
    /\ \E r \in {render(Func(name, args, block), c, ctxs, KeyOrder)} :
        /\ last' = [op |-> "render_func", name |-> name, args |-> args,
                    block |-> block, ctx |-> c, panicked |-> IsPanic(r),
                    out |-> IF IsPanic(r) THEN "" ELSE r.out]
        /\ status' = IF IsPanic(r) THEN "panic" ELSE status
        /\ UNCHANGED <<walk, written, functions, site_strings, layout_cache, ctxs, files, stack, reads>>

NextFunc ==
    \/ NewWithDefaults(SiteData("https://x.test"))
    \/ \E p \in 0..MaxCtx : Len(ctxs) < MaxCtx /\ NewContext(p)
    \/ \E c \in 1..MaxCtx, b \in Bindings :
            EntryCount(ctxs) < MaxEntries /\ InsertString(c, b[1], b[2])
    \/ \E c \in 1..MaxCtx, b \in JsonBindings :
            EntryCount(ctxs) < MaxEntries /\ InsertJson(c, b[1], b[2])
    \/ \E name \in DefaultFuncs, args \in ArgLists, block \in Blocks, c \in 1..MaxCtx :
            CallFunction(name, args, block, c)
    \/ \E name \in FuncNames, args \in ArgLists, block \in Blocks, c \in 1..MaxCtx :
            RenderFunc(name, args, block, c)
    \/ Return

SpecFunc == Init /\ [][NextFunc]_vars

(***************************************************************************)
(* Substitution of placeholders in a text                                  *)
(***************************************************************************)
\* the four ways to write the placeholder of key k
SpellingsOf(k) == {"{{" \o k \o "}}", "{" \o k \o "}", "{{ " \o k \o " }}", "{ " \o k \o " }"}

\* texts with placeholders of the key `a`: each spelling alone, all of them
\* in one text, and texts with none
SubstTexts ==
    SpellingsOf("a")
    \cup {"p{{a}}q{a}r{{ a }}s{ a }t", "{{a}}{{a}}", "{a}{ a }", "<b>{{a}}</b> {{b}}",
          "{{b}}", "{ a}", "a", "plain", ""}

SubstKeys == {"a", "b"}
SubstValues == {"v", "", "x y", "x{a}", "{{b}}"}

\* Self::perform_substitutions_str(s, k, v)
PerformSubstitutionsStr(s, k, v) ==
    /\ status = "running"
    /\ last = NoLast
    /\ last' = [op |-> "perform_substitutions_str", s |-> s, k |-> k, v |-> v,
                out |-> perform_substitutions_str(s, k, v)]
    /\ UNCHANGED <<walk, written, functions, site_strings, layout_cache, ctxs, files, stack, reads, status>>

\* front-matter maps of one and of two keys
SubstMaps ==
    {[k \in {"a"} |-> v] : v \in SubstValues}
    \cup {[k \in {"a", "b"} |-> IF k = "a" THEN va ELSE vb] :
             va \in SubstValues, vb \in {"w", "{{a}}"}}

\* Self::perform_substitutions_strings(s, strings), the map iterated in the
\* order ord
PerformSubstitutionsStrings(s, strings, ord) ==
    /\ status = "running"
    /\ last = NoLast
    /\ last' = [op |-> "perform_substitutions_strings", s |-> s, strings |-> strings,
                ord |-> ord, out |-> perform_substitutions_strings(s, strings, ord)]
    /\ UNCHANGED <<walk, written, functions, site_strings, layout_cache, ctxs, files, stack, reads, status>>

SubstOrders == {<<"a", "b">>, <<"b", "a">>}

NextSubst ==
    \/ \E s \in SubstTexts, k \in SubstKeys, v \in SubstValues :
            PerformSubstitutionsStr(s, k, v)
    \/ \E s \in SubstTexts, strings \in SubstMaps, ord \in SubstOrders :
            PerformSubstitutionsStrings(s, strings, ord)
    \/ Return

SpecSubst == Init /\ [][NextSubst]_vars

(***************************************************************************)
(* relative_url on base URLs and paths with any number of slashes          *)
(***************************************************************************)
RECURSIVE Slashes(_)
Slashes(n) == IF n = 0 THEN "" ELSE "/" \o Slashes(n - 1)

BaseUrls == {b \o Slashes(k) : b \in {"https://x.test", ""}, k \in 0..MaxSlashes}

\* site data with each base URL, and site data that sets no site.url
SitesWithUrl ==
    {SiteData(b) : b \in BaseUrls} \cup {[k \in {"build_revision"} |-> "r1"]}

Paths ==
    {Slashes(k) \o p : k \in 0..MaxSlashes, p \in {"about.html", "a/b.html", ""}}
    \cup {"https://ext.test/p", "#section", "#", "mailto:me", "a:b", "Z:",
          ":x", "1a:b", "a/b:c", "a b:c", "x#y", "/#top", "/a:b"}

\* self.relative_url(path)
RelativeUrl(path) ==
    LET r == relative_url(site_strings, path)
    IN  /\ status = "running"
        /\ last = NoLast
        /\ functions # {}
        /\ last' = IF IsPanic(r)
                   THEN [op |-> "relative_url", path |-> path, panicked |-> TRUE, result |-> ""]
                   ELSE [op |-> "relative_url", path |-> path, panicked |-> FALSE, result |-> r.s]
        /\ status' = IF IsPanic(r) THEN "panic" ELSE status
        /\ UNCHANGED <<walk, written, functions, site_strings, layout_cache, ctxs, files, stack, reads>>

NextUrl ==
    \/ \E site \in SitesWithUrl : NewWithDefaults(site)
    \/ \E path \in Paths : RelativeUrl(path)
    \/ Return

SpecUrl == Init /\ [][NextUrl]_vars

(***************************************************************************)
(* The files of a site                                                     *)
(***************************************************************************)
LayoutNames == {"default", "site", "post"}

LayoutBody(n) == "<" \o n \o ">{{content}}</" \o n \o ">"

\* templates/<n>.tpl.html: absent, without front matter, with an empty
\* `layout`, or with any layout named as parent
TemplateFiles(n) ==
    {NoFile, File(LayoutBody(n)), File("---\nlayout: \"\"\n---\n" \o LayoutBody(n))}
    \cup {File("---\nlayout: " \o m \o "\n---\n" \o LayoutBody(n)) : m \in LayoutNames}

FileSystems ==
    {f \in [LayoutNames -> UNION {TemplateFiles(n) : n \in LayoutNames}] :
        \A n \in LayoutNames : f[n] \in TemplateFiles(n)}

PagePaths ==
    {"content/a.md", "content/b.md", "content/c.md", "content/bad.md", "content/gone.md"}

(***************************************************************************)
(* get_layout and build_page, one frame of the call stack at a time         *)
(***************************************************************************)
Frame(fn, pc, name, front_matter, html, content_node, parent) ==
    [fn |-> fn, pc |-> pc, name |-> name, front_matter |-> front_matter,
     html |-> html, content_node |-> content_node, parent |-> parent]

Top == stack[Len(stack)]
Callers == SubSeq(stack, 1, Len(stack) - 1)

\* the innermost frame returns v: to the frame that called it, or to the build
ReturnValue(v, result) ==
    IF Callers = <<>>
    THEN /\ stack' = <<>>
         /\ last' = result
    ELSE /\ stack' = [Callers EXCEPT ![Len(Callers)].pc = "resume",
                                     ![Len(Callers)].parent = v]
         /\ last' = last

\* the state after new_with_defaults, with the template files of one site
InitLayout ==
    /\ functions = DefaultFuncs
    /\ site_strings = SiteData("https://x.test")
    /\ layout_cache = EmptyMap
    /\ ctxs = <<>>
    /\ last = NoLast
    /\ files \in FileSystems
    /\ stack = <<>>
    /\ reads = [n \in LayoutNames |-> 0]
    /\ status = "running"
    /\ walk = <<>>
    /\ written = <<>>

\* the build calls global.get_layout(name)
CallGetLayout(name) ==
    /\ status = "running"
    /\ last = NoLast
    /\ stack = <<>>
    /\ stack' = <<Frame("get_layout", "enter", name, EmptyMap, "", None, None)>>
    /\ UNCHANGED <<walk, written, functions, site_strings, layout_cache, ctxs, last, files, reads, status>>

\* get_layout from its entry to its recursive call, or to the point where
\* there is no parent to resolve
GetLayoutEnter ==
    /\ status = "running"
    /\ stack # <<>>
    /\ Top.fn = "get_layout" /\ Top.pc = "enter"
    /\ LET name == Top.name
           content == read_to_string(files, name)
           pf == parse_front_matter(content.v)
           y == parse_yaml_front_matter(pf.front_matter)
           parsed == IF y.type = "Ok" THEN y.v ELSE EmptyMap
           front_matter == with_default_layout(parsed, name)
           loaded == [Top EXCEPT !.front_matter = front_matter, !.html = pf.rest]
       IN  IF name \in DOMAIN layout_cache
           THEN /\ ReturnValue(layout_cache[name],
                               [op |-> "get_layout", name |-> name, ok |-> TRUE,
                                node |-> layout_cache[name]])
                /\ UNCHANGED <<reads, status>>
           ELSE /\ reads' = [reads EXCEPT ![name] = @ + 1]
                /\ IF content.type = "Err"
                   THEN /\ status' = "panic"
                        /\ last' = [op |-> "panic",
                                    message |-> "Failed to read template: " \o name
                                                \o " at templates/" \o name \o ".tpl.html"]
                        /\ UNCHANGED stack
                   ELSE IF "layout" \in DOMAIN front_matter /\ front_matter["layout"] # ""
                   THEN IF Len(stack) >= MaxDepth
                        THEN /\ status' = "stack_overflow"
                             /\ UNCHANGED <<stack, last>>
                        ELSE /\ stack' = Append(
                                    Append(Callers, [loaded EXCEPT !.pc = "await"]),
                                    Frame("get_layout", "enter", front_matter["layout"],
                                          EmptyMap, "", None, None))
                             /\ UNCHANGED <<status, last>>
                   ELSE /\ stack' = Append(Callers, [loaded EXCEPT !.pc = "resume"])
                        /\ UNCHANGED <<status, last>>
    /\ UNCHANGED <<walk, written, functions, site_strings, layout_cache, ctxs, files>>

\* the cache filled only with layouts that have a parent
layout_cache_insert_child(cache, name, layout) ==
    IF layout.parent = None THEN cache ELSE MapPut(cache, name, layout)

\* self.layout_cache.insert(name.to_string(), layout.clone())
layout_cache_insert(cache, name, layout) == MapPut(cache, name, layout)

\* get_layout from the return of its recursive call to its own return
GetLayoutFinish ==
    /\ status = "running"
    /\ stack # <<>>
    /\ Top.fn = "get_layout" /\ Top.pc = "resume"
    /\ LET content_node == parse_control_blocks(Top.html, functions)
           layout == Layout(Top.name, Top.front_matter, content_node, Top.parent)
       IN  IF IsPanic(content_node)
           THEN /\ status' = "panic"
                /\ UNCHANGED <<layout_cache, stack, last>>
           ELSE /\ layout_cache' = layout_cache_insert(layout_cache, Top.name, layout)
                /\ ReturnValue(layout, [op |-> "get_layout", name |-> Top.name,
                                        ok |-> TRUE, node |-> layout])
                /\ UNCHANGED status
    /\ UNCHANGED <<walk, written, functions, site_strings, ctxs, files, reads>>

\* build_page(path) from its entry to its call of get_layout, or to its
\* return when there is no layout or no page
BuildPage(path) ==
    /\ status = "running"
    /\ last = NoLast
    /\ stack = <<>>
    /\ LET failed == [op |-> "build_page", name |-> path, ok |-> FALSE, node |-> None]
           pf == parse_front_matter(Pages[path])
           y == parse_yaml_front_matter(pf.front_matter)
           with_layout == with_page_layout(y.v)
           front_matter == IF "title" \in DOMAIN with_layout THEN with_layout
                           ELSE MapPut(with_layout, "title", file_stem(path))
           content_node == parse_control_blocks(markdown_to_html(pf.rest), functions)
       IN  IF path \notin DOMAIN Pages
           THEN /\ last' = failed
                /\ UNCHANGED <<stack, status>>
           ELSE IF y.type = "Err"
           THEN /\ last' = failed
                /\ UNCHANGED <<stack, status>>
           ELSE IF IsPanic(content_node)
           THEN /\ status' = "panic"
                /\ UNCHANGED <<stack, last>>
           ELSE IF front_matter["layout"] = ""
           THEN /\ last' = [op |-> "build_page", name |-> path, ok |-> TRUE,
                            node |-> Page(path, front_matter, content_node, None)]
                /\ UNCHANGED <<stack, status>>
           ELSE /\ stack' = <<Frame("build_page", "await", path, front_matter, "",
                                    content_node, None),
                              Frame("get_layout", "enter", front_matter["layout"],
                                    EmptyMap, "", None, None)>>
                /\ UNCHANGED <<last, status>>
    /\ UNCHANGED <<walk, written, functions, site_strings, layout_cache, ctxs, files, reads>>

\* build_page from the return of get_layout to its own return
BuildPageFinish ==
    /\ status = "running"
    /\ stack # <<>>
    /\ Top.fn = "build_page" /\ Top.pc = "resume"
    /\ stack' = <<>>
    /\ last' = [op |-> "build_page", name |-> Top.name, ok |-> TRUE,
                node |-> Page(Top.name, Top.front_matter, Top.content_node, Top.parent)]
    /\ UNCHANGED <<walk, written, functions, site_strings, layout_cache, ctxs, files, reads, status>>

\* build_site with the page that build_page returned: a new root context
\* with the page's front matter, and page.render(ctx, global_context); the
\* context is dropped with the iteration of the loop
RenderPage(ord) ==
    /\ status = "running"
    /\ last.op = "build_page" /\ last.ok
    /\ \E h1 \in {add_front_matter(TemplateContext_new(<<>>, 0), 1,
                                     last.node.front_matter)} :
       \E r \in {render(last.node, 1, h1, ord)} :
           /\ last' = [op |-> "render_page", name |-> last.name, ok |-> ~IsPanic(r),
                       node |-> last.node,
                       out |-> IF IsPanic(r) THEN "" ELSE r.out,
                       heap |-> IF IsPanic(r) THEN h1 ELSE r.heap]
           /\ status' = IF IsPanic(r) THEN "panic" ELSE status
    /\ UNCHANGED <<walk, written, functions, site_strings, layout_cache, ctxs, files, stack, reads>>

NextLayout ==
    \/ \E name \in LayoutNames : CallGetLayout(name)
    \/ GetLayoutEnter
    \/ GetLayoutFinish
    \/ \E path \in PagePaths : BuildPage(path)
    \/ BuildPageFinish
    \/ \E ord \in Orders : RenderPage(ord)
    \/ Return

SpecLayout == InitLayout /\ [][NextLayout]_vars

(***************************************************************************)
(* Sites whose layouts have placeholders of a page-level key               *)
(***************************************************************************)
\* a layout body with two placeholders of `title` before the content
TitledBody(n) == "<" \o n \o ">{{title}}|{{ title }}:{{content}}</" \o n \o ">"

\* templates/<n>.tpl.html without front matter or with a `title` of its own;
\* `default` may also name `site` as its parent
TitledFiles(n) ==
    {File(TitledBody(n)), File("---\ntitle: L" \o n \o "\n---\n" \o TitledBody(n))}
    \cup (IF n = "default"
          THEN {File("---\nlayout: site\n---\n" \o TitledBody(n))} ELSE {})

TitledSystems ==
    {f \in [LayoutNames -> UNION {TitledFiles(n) : n \in LayoutNames}] :
        \A n \in LayoutNames : f[n] \in TitledFiles(n)}

InitTitled ==
    /\ functions = DefaultFuncs
    /\ site_strings = SiteData("https://x.test")
    /\ layout_cache = EmptyMap
    /\ ctxs = <<>>
    /\ last = NoLast
    /\ files \in TitledSystems
    /\ stack = <<>>
    /\ reads = [n \in LayoutNames |-> 0]
    /\ status = "running"
    /\ walk = <<>>
    /\ written = <<>>

SpecTitled == InitTitled /\ [][NextLayout]_vars

(***************************************************************************)
(* build_site: the loop over the pages of the directory walk               *)
(***************************************************************************)
\* pages in one walk
MaxWalk == 3

\* a layout whose body has an `if` on a key of its own front matter
ShownBody(n) ==
    "---\nshown: y\n---\n<" \o n \o ">{{ if shown }}S{{ endif }}{{content}}</" \o n \o ">"

SiteSystems ==
    {[n \in LayoutNames |-> IF n = "default" THEN File(d) ELSE File(LayoutBody(n))] :
        d \in {LayoutBody("default"), ShownBody("default")}}

\* what get_md_files_recursive finds: read_dir gives the entries in the
\* order of the file system, so any order
WalkPages == {"content/a.md", "content/bad.md", "content/top.md", "content/index.md"}

Walks ==
    {w \in UNION {[1..n -> WalkPages] : n \in 1..MaxWalk} :
        \A i, j \in 1..Len(w) : i # j => w[i] # w[j]}

InitSite ==
    /\ functions = DefaultFuncs
    /\ site_strings = SiteData("https://x.test")
    /\ layout_cache = EmptyMap
    /\ ctxs = <<>>
    /\ last = NoLast
    /\ files \in SiteSystems
    /\ stack = <<>>
    /\ reads = [n \in LayoutNames |-> 0]
    /\ status = "running"
    /\ walk \in Walks
    /\ written = <<>>

\* the loop takes the next path: global_context.build_page(&path)
BuildNextPage ==
    /\ walk # <<>>
    /\ BuildPage(Head(walk))

\* build_page returned Err: the `?` makes build_site return it
BuildSiteError ==
    /\ status = "running"
    /\ last.op = "build_page" /\ ~last.ok
    /\ status' = "error"
    /\ UNCHANGED <<walk, written, functions, site_strings, layout_cache, ctxs, last, files,
                   stack, reads>>

\* build_page returned a Page: a new root context with the page's front
\* matter, fs::write(output_path, page.render(ctx, global_context)), and
\* the loop goes on
WritePage(ord) ==
    /\ status = "running"
    /\ last.op = "build_page" /\ last.ok
    /\ \E h1 \in {add_front_matter(TemplateContext_new(<<>>, 0), 1,
                                     last.node.front_matter)} :
       \E r \in {render(last.node, 1, h1, ord)} :
           /\ last' = [op |-> "write_page", name |-> last.name, ok |-> ~IsPanic(r),
                       node |-> last.node,
                       out |-> IF IsPanic(r) THEN "" ELSE r.out,
                       heap |-> IF IsPanic(r) THEN h1 ELSE r.heap]
           /\ status' = IF IsPanic(r) THEN "panic" ELSE status
           /\ written' = IF IsPanic(r) THEN written
                         ELSE Append(written, [page |-> last.name, html |-> r.out])
           /\ walk' = IF IsPanic(r) THEN walk ELSE Tail(walk)
    /\ UNCHANGED <<functions, site_strings, layout_cache, ctxs, files, stack, reads>>

\* the loop is over: build_site goes on to the assets and the sitemap and
\* returns Ok
BuildSiteDone ==
    /\ status = "running"
    /\ last = NoLast /\ stack = <<>> /\ walk = <<>>
    /\ status' = "complete"
    /\ UNCHANGED <<walk, written, functions, site_strings, layout_cache, ctxs, last, files,
                   stack, reads>>

NextSite ==
    \/ BuildNextPage
    \/ GetLayoutEnter
    \/ GetLayoutFinish
    \/ BuildPageFinish
    \/ BuildSiteError
    \/ \E ord \in Orders : WritePage(ord)
    \/ Return
    \/ BuildSiteDone

SpecSite == InitSite /\ [][NextSite]_vars

(***************************************************************************)
(* What the claims speak of                                                *)
(***************************************************************************)
\* the contexts from c to the root of its chain
RECURSIVE Chain(_, _)
Chain(h, c) == IF c = 0 THEN {} ELSE {c} \cup Chain(h, h[c].parent)

\* key is bound to a string somewhere on the chain of c
Bound(h, c, key) == \E a \in Chain(h, c) : key \in DOMAIN h[a].strings

Wrap(t) == "<p>" \o t \o "</p>"

\* the last call rendered `core`, alone or with text around it
RenderedCore(core) ==
    last.op = "render" /\ last.text \in {core, Wrap(core)}

\* ... and gave `val` in the place of `core`
Yields(core, val) ==
    /\ ~last.panicked
    /\ last.out = IF last.text = core THEN val ELSE Wrap(val)

\* C1: `{{if X}}A{{else}}B{{endif}}` renders as A when X is bound on the
\* context chain and as B when it is not; `{{if X}}A{{endif}}` renders as
\* the empty string when X is not bound.
C1_IfElseEndif ==
    /\ RenderedCore("{{if X}}A{{else}}B{{endif}}") =>
          Yields("{{if X}}A{{else}}B{{endif}}",
                 IF Bound(last.heap, last.ctx, "X") THEN "A" ELSE "B")
    /\ RenderedCore("{{if X}}A{{endif}}") /\ ~Bound(last.heap, last.ctx, "X") =>
          Yields("{{if X}}A{{endif}}", "")

\* the block of C1 was rendered with X bound
C1_Rendered ==
    /\ RenderedCore("{{if X}}A{{else}}B{{endif}}")
    /\ Bound(last.heap, last.ctx, "X")

\* C2: `{{if A}}{{if B}}X{{endif}}Y{{endif}}` renders as XY when A and B are
\* both bound: each endif closes its own if.  The tags are also tried in
\* the spelling `{{ endif }}` that the end-tag search looks for.
C2_NestedIf ==
    \A core \in {"{{if A}}{{if B}}X{{endif}}Y{{endif}}",
                 "{{ if A }}{{ if B }}X{{ endif }}Y{{ endif }}"} :
        /\ RenderedCore(core)
        /\ Bound(last.heap, last.ctx, "A")
        /\ Bound(last.heap, last.ctx, "B")
        => Yields(core, "XY")

\* the nested block was rendered with A and B bound
C2_Rendered ==
    /\ RenderedCore("{{ if A }}{{ if B }}X{{ endif }}Y{{ endif }}")
    /\ Bound(last.heap, last.ctx, "A")
    /\ Bound(last.heap, last.ctx, "B")

\* the `name` fields of the records of a sequence, joined in order
RECURSIVE NamesJoined(_)
NamesJoined(items) ==
    IF items = <<>> THEN ""
    ELSE MappingGet(Head(items).entries, "name").s \o NamesJoined(Tail(items))

\* C3: `{{foreach items as x}}{{name}}{{endforeach}}` over a sequence of n
\* records renders as their n names joined in the order of the sequence,
\* and as the empty string when n = 0.  Also tried in the spelling
\* `{{ endforeach }}` that the end-tag search looks for.
C3_ForeachNames ==
    \A core \in {"{{foreach items as x}}{{name}}{{endforeach}}",
                 "{{ foreach items as x }}{{name}}{{ endforeach }}"} :
        /\ RenderedCore(core)
        /\ "items" \in DOMAIN last.heap[last.ctx].json_data
        /\ last.heap[last.ctx].json_data["items"].kind = "Sequence"
        => Yields(core, NamesJoined(last.heap[last.ctx].json_data["items"].items))

\* the foreach was rendered over a sequence of MaxItems records
C3_Rendered ==
    /\ RenderedCore("{{ foreach items as x }}{{name}}{{ endforeach }}")
    /\ "items" \in DOMAIN last.heap[last.ctx].json_data
    /\ last.heap[last.ctx].json_data["items"].kind = "Sequence"
    /\ Len(last.heap[last.ctx].json_data["items"].items) = MaxItems

\* C9, as claimed: a template with `{{nope foo}}`, nope not registered,
\* renders the text `nope` where the tag is.
C9_RendersName ==
    /\ RenderedCore("{{nope foo}}") => Yields("{{nope foo}}", "nope")
    /\ RenderedCore("{{ nope foo }}+{{nope foo}}") =>
          Yields("{{ nope foo }}+{{nope foo}}", "nope+nope")

\* C9, amended: a template with `{{nope foo}}`, nope not registered, is
\* parsed and rendered without a panic, and each such tag is rendered as
\* itself, with its delimiters, its argument and its inner whitespace.
C9_RendersTag ==
    /\ RenderedCore("{{nope foo}}") => Yields("{{nope foo}}", "{{nope foo}}")
    /\ RenderedCore("{{ nope foo }}+{{nope foo}}") =>
          Yields("{{ nope foo }}+{{nope foo}}", "{{ nope foo }}+{{nope foo}}")

\* the unknown tag was rendered between other text
C9_Rendered ==
    /\ last.op = "render"
    /\ last.text = Wrap("{{nope foo}}")
    /\ "nope" \notin functions

\* the tags that are no if, else or foreach tag, with their tokens
OtherTags ==
    [t \in {"{{nope foo}}", "{{uppercase abc}}", "{{  lowercase  ABC  de }}",
            "{{ uppercase }}", "{{ date }}", "{{ if }}", "{{ if a b }}",
            "{{ foreach items in x }}", "{{}}"} |->
        CASE t = "{{nope foo}}" -> <<"nope", "foo">>
          [] t = "{{uppercase abc}}" -> <<"uppercase", "abc">>
          [] t = "{{  lowercase  ABC  de }}" -> <<"lowercase", "ABC", "de">>
          [] t = "{{ uppercase }}" -> <<"uppercase">>
          [] t = "{{ date }}" -> <<"date">>
          [] t = "{{ if }}" -> <<"if">>
          [] t = "{{ if a b }}" -> <<"if", "a", "b">>
          [] t = "{{ foreach items in x }}" -> <<"foreach", "items", "in", "x">>
          [] t = "{{}}" -> <<>>]

\* the node the claim gives for a tag with the tokens toks
ClaimedNode(t, toks, fns) ==
    IF toks # <<>> /\ toks[1] \in fns
    THEN Func(toks[1], Tail(toks), None)
    ELSE StringContent(t)

\* C10: a tag that is no `if <key>`, `else` or `foreach <key> as <name>`
\* is parsed to a Func node (name the first token, args the other tokens
\* in order, no block content) if and only if its first token is registered
\* when it is parsed; otherwise to a literal of the complete tag, unchanged.
C10_OtherTag ==
    last.op = "parse" =>
        \A t \in DOMAIN OtherTags :
            LET n == ClaimedNode(t, OtherTags[t], last.fns)
            IN  /\ last.text = t => last.node = Composite(<<n>>)
                /\ last.text = Wrap(t) =>
                      last.node = Composite(<<StringContent("<p>"), n, StringContent("</p>")>>)

\* a registered tag with two arguments and much whitespace was parsed
C10_Parsed ==
    /\ last.op = "parse"
    /\ last.text = "{{  lowercase  ABC  de }}"
    /\ "lowercase" \in last.fns

\* the same tag was parsed when nothing was registered
C10_ParsedUnregistered ==
    /\ last.op = "parse"
    /\ last.text = "{{uppercase abc}}"
    /\ last.fns = {}

\* the contexts on the chain of c that define key
Definers(h, c, key) == {a \in Chain(h, c) : key \in DOMAIN h[a].strings}

\* some context on the chain of c binds key to value
BoundTo(h, c, key, value) == \E a \in Definers(h, c, key) : h[a].strings[key] = value

\* C4: get_string gives the value of the innermost context on the path to
\* the root that defines the key, and nothing when none does; each of the
\* four spellings of `title` interpolated in a context with title = "Child"
\* that has an ancestor with title = "Parent" gives "Child"; and a context
\* with no "Child" on its own path (a sibling of that child) gets "Child"
\* neither by lookup nor by interpolation.
C4_Shadowing ==
    /\ last.op = "get_string" =>
          LET ds == Definers(ctxs, last.ctx, last.key)
          IN  /\ last.result.found <=> ds # {}
              /\ ds # {} =>
                    LET inner == CHOOSE a \in ds : ds \subseteq Chain(ctxs, a)
                    IN  last.result.value = ctxs[inner].strings[last.key]
              /\ ~BoundTo(ctxs, last.ctx, last.key, "Child") =>
                    last.result.value # "Child"
    /\ last.op = "apply_substitutions" /\ last.s \in Spellings =>
          /\ ~last.panicked
          /\ ( /\ "title" \in DOMAIN ctxs[last.ctx].strings
               /\ ctxs[last.ctx].strings["title"] = "Child"
               /\ \E a \in Chain(ctxs, last.ctx) \ {last.ctx} :
                      "title" \in DOMAIN ctxs[a].strings /\ ctxs[a].strings["title"] = "Parent" )
             => last.out = "Child"
          /\ ~BoundTo(ctxs, last.ctx, "title", "Child") => last.out # "Child"

\* a placeholder was interpolated in a child that shadows its parent's title
C4_ChildInterpolated ==
    /\ last.op = "apply_substitutions"
    /\ last.s = "{ title }"
    /\ ctxs[last.ctx].parent # 0
    /\ BoundTo(ctxs, last.ctx, "title", "Child")
    /\ BoundTo(ctxs, ctxs[last.ctx].parent, "title", "Parent")
    /\ \E sib \in 1..Len(ctxs) :
          sib # last.ctx /\ ctxs[sib].parent = ctxs[last.ctx].parent

Letters == {SubSeq(AsciiLower, i, i) : i \in 1..Len(AsciiLower)}
               \cup {SubSeq(AsciiUpper, i, i) : i \in 1..Len(AsciiUpper)}

\* a non-empty run of letters, then a colon
HasScheme(path) ==
    \E n \in 1..(Len(path) - 1) :
        /\ SubSeq(path, n + 1, n + 1) = ":"
        /\ \A j \in 1..n : SubSeq(path, j, j) \in Letters

\* the last call was relative_url with a base URL configured
UrlRewritten == last.op = "relative_url" /\ "site.url" \in DOMAIN site_strings

\* C7, as claimed: relative_url returns its input unchanged exactly when
\* the input has a scheme prefix or starts with `#`.
C7_UnchangedIffSchemeOrAnchor ==
    UrlRewritten =>
        /\ ~last.panicked
        /\ last.result = last.path <=> (HasScheme(last.path) \/ StartsWith(last.path, "#"))

\* C7, amended: relative_url returns its input unchanged when the input has
\* a scheme prefix (letters, at least one, before the first colon) or starts
\* with `#`, and otherwise only when the base URL is empty or all slashes
\* and the input starts with exactly one slash; "https://ext.test/p" and
\* "#section" come back unchanged and "about.html" with the base
\* https://x.test comes back as https://x.test/about.html.
C7_UnchangedIff ==
    UrlRewritten =>
        /\ ~last.panicked
        /\ last.result = last.path <=>
              \/ HasScheme(last.path)
              \/ StartsWith(last.path, "#")
              \/ /\ site_strings["site.url"] = Slashes(Len(site_strings["site.url"]))
                 /\ StartsWith(last.path, "/")
                 /\ ~StartsWith(last.path, "//")
        /\ last.path \in {"https://ext.test/p", "#section"} => last.result = last.path
        /\ last.path = "about.html" /\ site_strings["site.url"] = "https://x.test" =>
              last.result = "https://x.test/about.html"

\* about.html was rewritten on the base https://x.test
C7_AboutRewritten ==
    /\ UrlRewritten
    /\ last.path = "about.html"
    /\ site_strings["site.url"] = "https://x.test"

\* C8: for a path with no scheme prefix and no leading `#`, the result is
\* the base without its trailing slashes, one `/`, and the path without its
\* leading slashes, whatever their numbers: the join has one slash, no more
\* and no less.
C8_OneSlash ==
    UrlRewritten /\ ~HasScheme(last.path) /\ ~StartsWith(last.path, "#") =>
        LET base == site_strings["site.url"]
        IN  /\ ~last.panicked
            /\ \E i \in 0..Len(base), j \in 0..Len(last.path) :
                  /\ SubSeq(base, i + 1, Len(base)) = Slashes(Len(base) - i)
                  /\ i > 0 => SubSeq(base, i, i) # "/"
                  /\ SubSeq(last.path, 1, j) = Slashes(j)
                  /\ j < Len(last.path) => SubSeq(last.path, j + 1, j + 1) # "/"
                  /\ last.result = SubSeq(base, 1, i) \o "/"
                                      \o SubSeq(last.path, j + 1, Len(last.path))

\* a path with leading slashes was joined to a base with trailing slashes
C8_SlashesOnBothSides ==
    /\ UrlRewritten
    /\ last.path = Slashes(MaxSlashes) \o "about.html"
    /\ site_strings["site.url"] = "https://x.test" \o Slashes(MaxSlashes)
    /\ last.result = "https://x.test/about.html"

\* C5, as claimed: within one GlobalContext each layout's file is read and
\* parsed at most once, whatever calls of get_layout and build_page are
\* made, and get_layout(name) returns the cached node of that name.
C5_ReadOnce ==
    /\ \A n \in LayoutNames : reads[n] <= 1
    /\ last.op = "get_layout" =>
          last.name \in DOMAIN layout_cache /\ last.node = layout_cache[last.name]

\* C6, as claimed: get_layout never enters a layout that it is already
\* resolving: it stops with a configuration error, so no name is twice on
\* the call stack and the stack is never exhausted.
C6_CycleDetected ==
    /\ status # "stack_overflow"
    /\ \A i, j \in DOMAIN stack :
          i < j /\ stack[i].fn = "get_layout" /\ stack[j].fn = "get_layout" =>
              stack[i].name # stack[j].name

\* the upper-case and the lower-case letter of a character
UpperOf(ch) ==
    IF \E i \in 1..26 : SubSeq(AsciiLower, i, i) = ch
    THEN SubSeq(AsciiUpper, CHOOSE i \in 1..26 : SubSeq(AsciiLower, i, i) = ch,
                CHOOSE i \in 1..26 : SubSeq(AsciiLower, i, i) = ch)
    ELSE ch

LowerOf(ch) ==
    IF \E i \in 1..26 : SubSeq(AsciiUpper, i, i) = ch
    THEN SubSeq(AsciiLower, CHOOSE i \in 1..26 : SubSeq(AsciiUpper, i, i) = ch,
                CHOOSE i \in 1..26 : SubSeq(AsciiUpper, i, i) = ch)
    ELSE ch

\* out is s with every character folded by F
FoldedBy(F(_), s, out) ==
    /\ Len(out) = Len(s)
    /\ \A i \in 1..Len(s) : SubSeq(out, i, i) = F(SubSeq(s, i, i))

\* C11: uppercase and lowercase return their first argument with every
\* letter folded, whatever further arguments, block content and context they
\* are called with, and the empty string when called with no argument;
\* uppercase("abc") = "ABC".  They leave the contexts as they were.
C11_CaseFolding ==
    last.op = "call" /\ last.name \in {"uppercase", "lowercase"} =>
        /\ ~last.panicked
        /\ last.heap = ctxs
        /\ last.args = <<>> => last.out = ""
        /\ last.args # <<>> /\ last.name = "uppercase" =>
              FoldedBy(UpperOf, last.args[1], last.out)
        /\ last.args # <<>> /\ last.name = "lowercase" =>
              FoldedBy(LowerOf, last.args[1], last.out)
        /\ last.name = "uppercase" /\ last.args = <<"abc">> => last.out = "ABC"

\* uppercase was called with two arguments and a block
C11_CalledWithMore ==
    /\ last.op = "call" /\ last.name = "uppercase"
    /\ last.args = <<"XY", "de">>
    /\ last.block # None
    /\ last.out = "XY"

\* C12: an IfBlock renders its true branch exactly when its key is bound
\* to a string in the context or an ancestor of it, whatever the value, the
\* empty string too; otherwise it renders its false branch, or the empty
\* string when it has none.
C12_IfByPresence ==
    /\ RenderedCore("{{ if X }}A{{ else }}B{{ endif }}") =>
          Yields("{{ if X }}A{{ else }}B{{ endif }}",
                 IF Bound(last.heap, last.ctx, "X") THEN "A" ELSE "B")
    /\ RenderedCore("{{ if X }}A{{ endif }}") =>
          Yields("{{ if X }}A{{ endif }}",
                 IF Bound(last.heap, last.ctx, "X") THEN "A" ELSE "")

\* the if was rendered where only an ancestor binds X, to the empty string
C12_EmptyInAncestor ==
    /\ RenderedCore("{{ if X }}A{{ else }}B{{ endif }}")
    /\ "X" \notin DOMAIN last.heap[last.ctx].strings
    /\ \A a \in Chain(last.heap, last.ctx) :
          "X" \in DOMAIN last.heap[a].strings => last.heap[a].strings["X"] = ""
    /\ Bound(last.heap, last.ctx, "X")
    /\ Yields("{{ if X }}A{{ else }}B{{ endif }}", "A")

\* what the file of layout n says of its parent: "absent" for no `layout`
\* key, else the value of the key
DeclaredLayout(n) ==
    IF files[n] = File(LayoutBody(n)) THEN "absent"
    ELSE IF files[n] = File("---\nlayout: \"\"\n---\n" \o LayoutBody(n)) THEN ""
    ELSE CHOOSE m \in LayoutNames :
            files[n] = File("---\nlayout: " \o m \o "\n---\n" \o LayoutBody(n))

\* the name of the parent of a Layout or Page node, "" for no parent
ParentName(node) == IF node.parent = None THEN "" ELSE node.parent.name

\* C13: the Layout node built for N has the parent `default` when N's file
\* has no `layout` key and N is neither `default` nor `site`, the layout
\* named by a non-empty `layout`, and no parent when `layout` is empty or
\* when N is `default` or `site` and has no `layout` key.
C13_DefaultParent ==
    \A n \in DOMAIN layout_cache :
        /\ layout_cache[n].type = "Layout" /\ layout_cache[n].name = n
        /\ ParentName(layout_cache[n]) =
              IF DeclaredLayout(n) = "absent"
              THEN (IF n \in {"default", "site"} THEN "" ELSE "default")
              ELSE DeclaredLayout(n)
        /\ layout_cache[n].parent # None => layout_cache[n].parent.type = "Layout"

\* post, site and default are cached: post by the default parent, site
\* without a parent though it names none, default under site by its key
C13_AllThreeBuilt ==
    /\ LayoutNames \subseteq DOMAIN layout_cache
    /\ DeclaredLayout("post") = "absent" /\ ParentName(layout_cache["post"]) = "default"
    /\ DeclaredLayout("site") = "absent" /\ ParentName(layout_cache["site"]) = ""
    /\ DeclaredLayout("default") = "site" /\ ParentName(layout_cache["default"]) = "site"

\* what the pages of the model say of their layout
PageLayout ==
    [p \in {"content/a.md", "content/b.md", "content/c.md"} |->
        CASE p = "content/a.md" -> "absent"
          [] p = "content/b.md" -> ""
          [] p = "content/c.md" -> "post"]

\* C14: a page with an empty `layout` is built with no parent and renders
\* as its own interpolated content; a page with no `layout` key is built
\* with the layout `default` as parent; a page with any other `layout` is
\* built with the layout of that name.
C14_PageLayout ==
    /\ last.op = "build_page" /\ last.ok =>
          /\ last.node.type = "Page"
          /\ ParentName(last.node) =
                IF PageLayout[last.name] = "absent" THEN "default"
                ELSE PageLayout[last.name]
          /\ last.node.parent # None =>
                last.node.parent = layout_cache[ParentName(last.node)]
    /\ last.op = "render_page" /\ last.name = "content/b.md" =>
          last.ok /\ last.out = "<p>Hello b</p>\n"

\* the page with the empty layout was rendered, the others were built
C14_EmptyLayoutRendered ==
    /\ last.op = "render_page" /\ last.name = "content/b.md"
    /\ last.node.parent = None
    /\ last.out = "<p>Hello b</p>\n"

\* n times the text t
RECURSIVE Repeated(_, _)
Repeated(t, n) == IF n = 0 THEN "" ELSE t \o Repeated(t, n - 1)

\* the ancestors of c that bind key to a sequence in their json_data
JsonDefiners(h, c, key) ==
    {a \in Chain(h, c) \ {c} : /\ key \in DOMAIN h[a].json_data
                                /\ h[a].json_data[key].kind = "Sequence"}

\* C15, as claimed: a foreach whose key is bound to a sequence only in an
\* ancestor of the context it is rendered in iterates over that sequence:
\* its body is rendered once per record (with the record's name in the
\* place of `{{name}}`, or with the body's text as it stands).
C15_AncestorSequence ==
    LET core == "{{ foreach items as x }}{{name}}{{ endforeach }}"
    IN  /\ RenderedCore(core)
        /\ "items" \notin DOMAIN last.heap[last.ctx].json_data
        => \A a \in JsonDefiners(last.heap, last.ctx, "items") :
              LET items == last.heap[a].json_data["items"].items
              IN  \/ Yields(core, NamesJoined(items))
                  \/ Yields(core, Repeated("{{name}}", Len(items)))

\* the layouts from the parent of a node to the outermost one
RECURSIVE LayoutChain(_)
LayoutChain(node) ==
    IF node.parent = None THEN <<>> ELSE <<node.parent>> \o LayoutChain(node.parent)

\* what the pages of the model give as their own interpolated content
PageContent ==
    [p \in {"content/a.md", "content/b.md", "content/c.md"} |->
        IF p = "content/b.md" THEN "<p>Hello b</p>\n" ELSE "<p>Hello</p>\n"]

\* the output after the first i layouts of the chain: the body of layout i
\* with the output of the stage before it in the place of the content
RECURSIVE StageOutput(_, _, _)
StageOutput(page, chain, i) ==
    IF i = 0 THEN PageContent[page]
    ELSE "<" \o chain[i].name \o ">" \o StageOutput(page, chain, i - 1)
             \o "</" \o chain[i].name \o ">"

\* C16: a Page or Layout with a parent layout is rendered by rendering the
\* parent in a new context, a child of the node's context, that has the
\* node's interpolated output as `content` (and, beside it, nothing but the
\* parent's own front matter); with no parent the node's interpolated
\* output is the result.  For a chain page -> L1 -> ... -> Ln the result is
\* Ln's body around the output of L(n-1), down to the page.
C16_LayoutHandOff ==
    last.op = "render_page" =>
        LET chain == LayoutChain(last.node)
            n == Len(chain)
        IN  /\ last.ok
            /\ last.out = StageOutput(last.name, chain, n)
            /\ Len(last.heap) = 2 + n
            /\ \A i \in 1..n :
                  /\ last.heap[2 + i].parent = 1 + i
                  /\ last.heap[2 + i].strings["content"] = StageOutput(last.name, chain, i - 1)
                  /\ DOMAIN last.heap[2 + i].strings =
                        {"content"} \cup DOMAIN chain[i].front_matter

\* a page was rendered through three layouts
C16_ThreeLayouts ==
    /\ last.op = "render_page" /\ last.name = "content/c.md"
    /\ last.out = "<site><default><post><p>Hello</p>\n</post></default></site>"

\* the text s with every placeholder of k, in any of the four spellings,
\* replaced by v, in one pass from left to right
RECURSIVE ReplacedSites(_, _, _)
ReplacedSites(s, k, v) ==
    IF s = "" THEN ""
    ELSE IF \E p \in SpellingsOf(k) : StartsWith(s, p)
         THEN LET p == CHOOSE q \in SpellingsOf(k) : StartsWith(s, q)
              IN  v \o ReplacedSites(SliceFrom(s, Len(p)), k, v)
         ELSE Head(s) \o ReplacedSites(Tail(s), k, v)

\* C17, as claimed: for every key, value and text, perform_substitutions_str
\* gives the text with every occurrence of each of the four spellings of
\* the key replaced by the value, and nothing else changed.
C17_FourSpellings ==
    last.op = "perform_substitutions_str" =>
        last.out = ReplacedSites(last.s, last.k, last.v)

\* no key of the map is part of another key, a prefix or otherwise
KeysApart(strings) ==
    \A k1, k2 \in DOMAIN strings : k1 # k2 => ~Contains(k1, k2)

\* C18, as claimed: for a map whose keys do not overlap and are not prefixes
\* of one another, perform_substitutions_strings gives the same output in
\* whatever order the entries of the map are processed.
C18_OrderIndependent ==
    last.op = "perform_substitutions_strings" /\ KeysApart(last.strings) =>
        \A ord \in SubstOrders :
            perform_substitutions_strings(last.s, last.strings, ord) = last.out

\* the layouts that get_layout is resolving
Resolving == {stack[i].name : i \in {j \in DOMAIN stack : stack[j].fn = "get_layout"}}

\* C19: once get_layout has tried to read the file of a layout that has
\* none, the build is dead by a panic whose message names that layout, and
\* neither that layout nor any layout that was being resolved through it is
\* in the layout cache.
C19_MissingLayoutFatal ==
    \A n \in LayoutNames :
        reads[n] > 0 /\ ~files[n].exists =>
            /\ status = "panic"
            /\ last.op = "panic"
            /\ StartsWith(last.message, "Failed to read template: " \o n \o " ")
            /\ Top.name = n
            /\ Resolving \cap DOMAIN layout_cache = {}

\* the build died on the missing parent of a layout that was being resolved
C19_DiedOnParent ==
    /\ status = "panic" /\ last.op = "panic"
    /\ Len(stack) >= 2
    /\ ~files[Top.name].exists
    /\ stack[Len(stack) - 1].fn = "get_layout"

\* the context of the last render binds no sequence to `items`
NoSequence(h, c) ==
    "items" \in DOMAIN h[c].json_data => h[c].json_data["items"].kind # "Sequence"

\* C20, as claimed: an unknown tag, an `if` or a `foreach` whose key is
\* missing, a `foreach` whose key is bound to something that is no sequence
\* and a placeholder of a key defined nowhere are each rendered as their
\* source text or as the empty string, and neither parsing nor rendering
\* them fails.
C20_SilentFallback ==
    /\ \A t \in {"{{nope foo}}", "{{if X}}A{{endif}}", "{{ if X }}A{{ endif }}",
                 "{{foreach items as x}}{{name}}{{endforeach}}",
                 "{{ foreach items as x }}{{name}}{{ endforeach }}"} :
          last.op \in {"parse", "render"} /\ last.text \in {t, Wrap(t)} =>
              IF last.op = "parse" THEN ~IsPanic(last.node) ELSE ~last.panicked
    /\ RenderedCore("{{nope foo}}") => Yields("{{nope foo}}", "{{nope foo}}")
    /\ \A t \in {"{{if X}}A{{endif}}", "{{ if X }}A{{ endif }}"} :
          RenderedCore(t) /\ ~Bound(last.heap, last.ctx, "X") => Yields(t, "")
    /\ \A t \in {"{{foreach items as x}}{{name}}{{endforeach}}",
                 "{{ foreach items as x }}{{name}}{{ endforeach }}"} :
          RenderedCore(t) /\ NoSequence(last.heap, last.ctx) => Yields(t, "")

\* the strings a record gives its iteration: its fields of string key and
\* string value
StringFields(item) ==
    IF item.kind # "Mapping" THEN EmptyMap
    ELSE LET es   == item.entries
             hits == {i \in 1..Len(es) : es[i].k.kind = "String" /\ es[i].v.kind = "String"}
         IN  [k \in {es[i].k.s : i \in hits} |->
                 es[CHOOSE i \in hits : es[i].k.s = k].v.s]

\* C21: a foreach over a sequence renders its body once per record in a new
\* context: its parent is the context of the block, its strings are exactly
\* the record's fields of string key and string value (a number, a sequence,
\* a number key and a record that is no mapping give nothing), and no field
\* is seen in another record's iteration or after the loop.
C21_PerRecordBinding ==
    /\ RenderedCore(RowsLoop)
    /\ "rows" \in DOMAIN last.heap[last.ctx].json_data
    => LET items == last.heap[last.ctx].json_data["rows"].items
           n0    == Len(ctxs)
       IN  /\ ~last.panicked
           /\ Len(last.heap) = n0 + Len(items)
           /\ \A i \in 1..Len(items) :
                 /\ last.heap[n0 + i].parent = last.ctx
                 /\ last.heap[n0 + i].strings = StringFields(items[i])
           /\ \A k \in {"name", "nick", "age", "tags"} :
                 k \notin DOMAIN last.heap[last.ctx].strings
           /\ Yields(RowsLoop, "NY;;Y;.")

\* the loop over the mixed records was rendered
C21_RowsRendered ==
    /\ RenderedCore(RowsLoop)
    /\ "rows" \in DOMAIN last.heap[last.ctx].json_data
    /\ Len(last.heap) = Len(ctxs) + 3

\* the output after the first i layouts of the chain when every placeholder
\* of `title` in a layout's body gives the value t
RECURSIVE TitledStage(_, _, _, _)
TitledStage(page, chain, i, t) ==
    IF i = 0 THEN PageContent[page]
    ELSE "<" \o chain[i].name \o ">" \o t \o "|" \o t \o ":"
             \o TitledStage(page, chain, i - 1, t) \o "</" \o chain[i].name \o ">"

\* the keys that the front matter of a page's file defines
WrittenKeys(path) ==
    DOMAIN parse_yaml_front_matter(parse_front_matter(Pages[path]).front_matter).v

\* C22, as claimed: for a page whose front matter defines `title`, every
\* placeholder of `title` in the body of a layout of the page's chain is
\* rendered as the page's `title`, whether the layout's front matter has a
\* `title` of its own or not.
C22_PageOverridesLayout ==
    last.op = "render_page" /\ "title" \in WrittenKeys(last.name) =>
        LET chain == LayoutChain(last.node)
        IN  /\ last.ok
            /\ last.out = TitledStage(last.name, chain, Len(chain),
                                      last.node.front_matter["title"])

\* the page's front matter does not parse
Malformed(path) ==
    parse_yaml_front_matter(parse_front_matter(Pages[path]).front_matter).type = "Err"

\* the pages that the build of a page processes: the page, and the pages
\* of the directory that its list_md lists
Processed(path) ==
    {path} \cup (IF path = "content/index.md"
                 THEN {"content/_posts/ok.md", "content/_posts/bad.md"} ELSE {})

\* C23, as claimed: when the front matter of a page that the build
\* processes, from the walk or through list_md, does not parse, build_site
\* returns an error and writes no page from then on: what is written was
\* built from well-formed pages only, and a build does not complete after
\* it has met a malformed page.
C23_MalformedAborts ==
    /\ \A i \in 1..Len(written) :
          \A q \in Processed(written[i].page) : ~Malformed(q)
    /\ status = "error" => walk # <<>> /\ Malformed(Head(walk))
    /\ last.op = "build_page" /\ Malformed(last.name) => ~last.ok

\* C24: a template with an `else` tag outside every `if` is parsed and
\* rendered without a failure, and its output is the output of the template
\* without the tag, rendered in the same context.
C24_StrayElseIgnored ==
    \A e \in StrayElse :
        last.op = "render" /\ last.text = e[1] \o e[2] \o e[3] =>
            /\ ~last.panicked
            /\ \E r \in {render(ParseTable[functions][e[1] \o e[3]], last.ctx, ctxs,
                                 KeyOrder)} :
                   ~IsPanic(r) /\ r.out = last.out

\* a stray `else` in the body of a loop was rendered, the loop running over
\* a sequence that is not empty
C24_StrayRendered ==
    /\ last.op = "render" /\ ~last.panicked
    /\ last.text = "{{ foreach items as x }}n{{ else }}m{{ endforeach }}"
    /\ StartsWith(last.out, "nm")
\* the text of a node in the spelling with one space inside the delimiters
RECURSIVE Unparse(_)
RECURSIVE UnparseAll(_)
RECURSIVE JoinArgs(_)
JoinArgs(args) == IF args = <<>> THEN "" ELSE " " \o Head(args) \o JoinArgs(Tail(args))

UnparseAll(nodes) ==
    IF nodes = <<>> THEN "" ELSE Unparse(Head(nodes)) \o UnparseAll(Tail(nodes))

Unparse(node) ==
    CASE node.type = "StringContent" -> node.s
      [] node.type = "Composite" -> UnparseAll(node.nodes)
      [] node.type = "IfBlock" ->
            "{{ if " \o node.condition \o " }}" \o Unparse(node.true_branch)
            \o (IF node.false_branch = None THEN ""
                ELSE "{{ else }}" \o Unparse(node.false_branch))
            \o "{{ endif }}"
      [] node.type = "ForEachBlock" ->
            "{{ foreach " \o node.key \o " as " \o node.item_name \o " }}"
            \o Unparse(node.body) \o "{{ endforeach }}"
      [] node.type = "Func" -> "{{ " \o node.name \o JoinArgs(node.args) \o " }}"

\* the children of a parse result are literals that are not empty and blocks
\* and tags, and the branches and bodies of the blocks are parse results too
RECURSIVE ParseResult(_)
ParseResult(node) ==
    /\ node.type = "Composite"
    /\ \A i \in 1..Len(node.nodes) :
          LET n == node.nodes[i]
          IN  CASE n.type = "StringContent" -> n.s # ""
                [] n.type = "IfBlock" ->
                      /\ ParseResult(n.true_branch)
                      /\ n.false_branch # None => ParseResult(n.false_branch)
                [] n.type = "ForEachBlock" -> ParseResult(n.body)
                [] n.type = "Func" -> TRUE
                [] OTHER -> FALSE

\* templates whose tags are all spelled with one space inside the delimiters
\* or are no tags of the language, and that hold no stray `else`
Canonical ==
    {"{{ if X }}A{{ else }}B{{ endif }}", Wrap("{{ if X }}A{{ else }}B{{ endif }}"),
     "{{ if X }}A{{ endif }}",
     "{{ if A }}{{ if B }}X{{ endif }}Y{{ endif }}",
     Wrap("{{ if A }}{{ if B }}X{{ endif }}Y{{ endif }}"),
     "{{ foreach items as x }}{{name}}{{ endforeach }}",
     "{{nope foo}}", Wrap("{{nope foo}}"), "{{ nope foo }}+{{nope foo}}",
     "{{ uppercase }}", "{{ date }}", "{{ if }}", "{{ if a b }}",
     "{{ foreach items in x }}", "{{}}",
     "{{ uppercase ab }}{{ uppercase cd }}",
     "{{ foreach items as x }}nm{{ endforeach }}",
     RowsLoop, "plain", "ab", ""}

\* C25 as stated: the result of parse_control_blocks holds the literals, not
\* empty, and the blocks in source order, and with one child only it is that
\* child and no Composite.
C25_SingleChildCollapsed ==
    last.op = "parse" /\ ~IsPanic(last.node) =>
        /\ last.node.type = "Composite" =>
              /\ ParseResult(last.node)
              /\ Len(last.node.nodes) # 1
        /\ last.text \in Canonical => Unparse(last.node) = last.text

\* C25 (amended): the result of parse_control_blocks is always a Composite,
\* also with one child or none; its children are the literals, verbatim and
\* not empty, and the blocks in source order, and the branches and bodies of
\* the blocks are such Composites again.
C25_AlwaysComposite ==
    last.op = "parse" /\ ~IsPanic(last.node) =>
        /\ ParseResult(last.node)
        /\ last.text \in Canonical => Unparse(last.node) = last.text
        /\ last.text = "plain" => last.node = Composite(<<StringContent("plain")>>)
        /\ last.text = "" => last.node = Composite(<<>>)

\* a template of one block with nested blocks and text after it was parsed
\* with the built-ins registered
C25_Parsed ==
    /\ last.op = "parse" /\ ~IsPanic(last.node)
    /\ last.fns = DefaultFuncs
    /\ last.text = RowsLoop
    /\ Len(last.node.nodes) = 4
    /\ last.node.nodes[1].type = "ForEachBlock"
    /\ Len(last.node.nodes[1].body.nodes) = 5
\* C26: the render of a Func node gives what the function registered under
\* its name returns for the node's args, its block content and the context
\* (`uppercase abc` gives `ABC`); when no function of that name is
\* registered it gives the name alone, whatever the args.
C26_FuncRender ==
    last.op = "render_func" =>
        /\ last.name \in functions =>
              \E r \in {Invoke(last.name, last.args, last.block, last.ctx, ctxs,
                                KeyOrder)} :
                  /\ last.panicked = IsPanic(r)
                  /\ ~last.panicked => last.out = r.out
        /\ last.name = "uppercase" /\ last.args = <<"abc">> =>
              ~last.panicked /\ last.out = "ABC"
        /\ last.name \notin functions => ~last.panicked /\ last.out = last.name

\* a Func node with a name that is not registered and with three args was
\* rendered
C26_UnknownRendered ==
    /\ last.op = "render_func"
    /\ last.name = "nope" /\ "nope" \notin functions
    /\ Len(last.args) = 3
    /\ last.out = "nope"
\* the contexts a render has made: those after the ones that were there
MadeBy(before, after) == (Len(before) + 1)..Len(after)

\* C27: when page.render(ctx, global) has returned, every context that was
\* there before the call, ctx and its ancestors among them, has the strings,
\* nodes and json_data it had before; the front matter of the page and of
\* its layouts and the `content` of each layout are in contexts made during
\* the call.  The same holds of a body rendered directly in a context: the
\* fields of the records of a loop go to contexts made for the items.
C27_ParentsReadOnly ==
    /\ last.op = "render" /\ ~last.panicked =>
        /\ \A i \in 1..Len(last.before) : last.heap[i] = last.before[i]
        /\ ctxs = last.before
        /\ last.text = RowsLoop /\ last.out # "." =>
               \E n \in MadeBy(last.before, last.heap) :
                   /\ last.heap[n].parent = last.ctx
                   /\ "nick" \in DOMAIN last.heap[n].strings
    /\ last.op = "page_render" /\ ~last.panicked =>
        /\ \A i \in 1..Len(last.before) : last.heap[i] = last.before[i]
        /\ ctxs = last.before
        /\ \E n \in MadeBy(last.before, last.heap) :
               /\ last.heap[n].parent = last.ctx
               /\ "Y" \in DOMAIN last.heap[n].strings
               /\ last.heap[n].strings["title"] = "T"
        /\ last.parent # None =>
               \E n \in MadeBy(last.before, last.heap) :
                   /\ "content" \in DOMAIN last.heap[n].strings
                   /\ last.heap[n].strings["X"] = "inner"

\* a page with a loop over records in its body and two layouts was rendered
\* in a context that has a parent and holds the records and a binding
C27_RenderedBelow ==
    /\ last.op = "page_render" /\ ~last.panicked
    /\ last.text = RowsLoop
    /\ last.parent # None /\ last.parent.parent # None
    /\ last.before[last.ctx].parent # 0
    /\ "rows" \in DOMAIN last.before[last.ctx].json_data
    /\ DOMAIN last.before[last.ctx].strings # {}
    /\ Len(last.heap) = Len(last.before) + 3
\* the cached layouts whose parent is the entry cached under the parent's name
ParentsCached(cache) ==
    \A n \in DOMAIN cache :
        cache[n].parent # None =>
            /\ cache[n].parent.name \in DOMAIN cache
            /\ cache[cache[n].parent.name] = cache[n].parent

\* C28: in every step of get_layout and build_page calls the parent of every
\* cached layout is the entry cached under the parent's name; a layout is
\* inserted when its parent, if it has one, is in the cache already; an entry
\* is never replaced or removed; and the cache changes only in the step in
\* which get_layout inserts the layout it has built under its own name.
C28_LayoutCache ==
    [][/\ ParentsCached(layout_cache')
       /\ \A n \in DOMAIN layout_cache :
             n \in DOMAIN layout_cache' /\ layout_cache'[n] = layout_cache[n]
       /\ \A n \in DOMAIN layout_cache' \ DOMAIN layout_cache :
             /\ layout_cache'[n].parent # None =>
                   layout_cache'[n].parent.name \in DOMAIN layout_cache
             /\ layout_cache'[n].name = n
       /\ layout_cache' # layout_cache =>
             /\ stack # <<>> /\ Top.fn = "get_layout" /\ Top.pc = "resume"
             /\ DOMAIN layout_cache' = DOMAIN layout_cache \cup {Top.name}
      ]_vars

\* the cache holds a chain of three layouts, filled by a call made for a page
C28_ChainCached ==
    /\ last.op = "build_page" /\ last.ok
    /\ \E n \in DOMAIN layout_cache :
           /\ layout_cache[n].parent # None
           /\ layout_cache[n].parent.parent # None
           /\ layout_cache[n].parent.parent.name \in DOMAIN layout_cache
\* C29: parse_control_blocks returns a node tree for every text, also for a
\* text with `{{` and no `}}` after it and for a text with an `if` or
\* `foreach` tag whose end tag is missing or written without the inner
\* spaces; it never panics.
C29_ParseTotal ==
    last.op = "parse" => ~IsPanic(last.node) /\ last.node.type = "Composite"
\* the pages of the walk that are rendered through the layout `default`
UsesDefault(path) == path \in {"content/a.md", "content/index.md"}

\* C30: the keys of the front matter of a page or a layout are bound where
\* its body is rendered: a written top-level page whose body is
\* `Top{{ if flag }}!{{ endif }}` and whose front matter defines flag shows
\* `Top!`; the page with `Post{{ if flag }}!{{ endif }}` listed by list_md
\* shows `Post!`; a layout with `{{ if shown }}S{{ endif }}` at the start of
\* its body and shown in its front matter shows `S`.
C30_FrontMatterInScope ==
    \A i \in 1..Len(written) :
        /\ written[i].page = "content/top.md" => Contains(written[i].html, "Top!")
        /\ written[i].page = "content/index.md" => Contains(written[i].html, "Post!")
        /\ UsesDefault(written[i].page) /\ files["default"].content = ShownBody("default")
              => StartsWith(written[i].html, "<default>S")
====
